---- MODULE Spec2Model ----
(***************************************************************************)
(* A model of the search core of Monty: the shared two-half tree with its  *)
(* atomic node records, the per-thread bump allocator, the actions lock,   *)
(* one PUCT iteration (perform_one) run by concurrent workers, and the     *)
(* transposition table.                                                    *)
(*                                                                         *)
(* Spec      workers running perform_one over the tree, with half-swaps.   *)
(*           Every shared load, store, fetch-add or lock operation that a  *)
(*           different interleaving could order differently is a step.     *)
(*           The transposition table is kept abstract there: a probe may   *)
(*           return any entry or none (SpecTT models the table itself).    *)
(*           pick_action is a choice of any child index (its scores are    *)
(*           functions of the tunable parameters and the policy network).  *)
(* SpecTT    callers of HashTable::push and HashTable::get, every atomic   *)
(*           load and store of an entry's key and data a step.             *)
(* SpecTTSeq the same table with a single caller.                          *)
(* SpecLock  callers of CustomLock::read and CustomLock::write, every      *)
(*           mutex operation, flag store and value access a step.          *)
(* SpecNode  callers of the methods of one Node (update, q, clear) and an   *)
(*           expansion of it, every load, store and fetch-add a step.      *)
(* SpecHalf  callers of TreeHalf::reserve_nodes_thread and clear.          *)
(* SpecPolicy, SpecQuant  set_policy / policy and update / q as functions  *)
(*           of their inputs.                                              *)
(* SpecStop  the worker loops of the Searcher and the stop flag, with weak *)
(*           fairness of each worker.                                      *)
(* SpecPick  pick_action on the children of one node.                      *)
(* SpecParam MctsParams::set, any sequence of calls.                       *)
(* SpecSyzygy  configure_syzygy and probe_root_dtz_best_move on one        *)
(*           tablebase handle.                                             *)
(* SpecPtr   NodePtr::new, half, idx and the addition of an offset.        *)
(* SpecCorr  the correction history: update and correction.                *)
(* SpecStats callers of the should_ methods of SearchStats, the load, the  *)
(*           comparison and the compare_exchange of advance_threshold      *)
(*           each a step, with weak fairness of a caller inside the loop.  *)
(* SpecLive  Spec on the smaller tree, with weak fairness of each worker.  *)
(* SpecTTAny the table with one caller, hash 0 among the hashes, and       *)
(*           clear.                                                        *)
(* SpecInflight  callers of InflightTable::try_insert, contains, remove.   *)
(* SpecBackprop  callers of RootBackprop::record, then flush_all.          *)
(* SpecHistory  callers of ValueHistory::update and correct_cp on a cell.  *)
(* SpecPolicyTable  PolicyTable::push and get with one caller.             *)
(***************************************************************************)
EXTENDS Integers, Sequences, FiniteSets, TLC

VARIABLES
    half,       \* Tree: the active half (0 or 1)
    root,       \* Tree: root_node()
    cap,        \* TreeHalf: nodes.len() of each half
    game,       \* the root position handed to the search (an abstract game)
    nodes,      \* node memory: NodePtr -> Node, for the nodes in use
    alloc,      \* per half: used, and next/end per thread id
    stack,      \* per worker: the perform_one frames of its iteration
    pos,        \* per worker: its thread-local position (moves made from the root)
    res,        \* per worker: what its last perform_one returned
    iters,      \* per worker: iterations started
    needSwap,   \* an iteration returned the allocation-failure sentinel
    swaps,      \* half-swaps performed
    blocks,     \* history: child blocks reserved by expand_node, per node
    trail,      \* history: per worker, the quantised q its current iteration
                \* added, leaf first
    tt,         \* HashTable: slot -> [key, data]
    tp,         \* the callers of the hash table: their place in push or get
    lk,         \* one CustomLock: value, write_locked, the mutex
    lp,         \* the callers of the lock: their place in read or write
    lhist,      \* history: the last write section and the reads during it
    nd,         \* one Node, shared by the callers of its methods
    np,         \* the callers of the node: their place in a method
    nh,         \* history: clears of the node, updates since the last clear
    th,         \* one TreeHalf: used, and next/end per thread id
    hq,         \* the callers of the half: their place in a method
    pw,         \* a distribution and the priors stored for it
    qr,         \* a value Q, the node updated with it, and q() read back
    stop,       \* Searcher: the stop flag
    flip,       \* Searcher: a worker has signalled that the half is full
    sw,         \* Searcher: per worker, its place in the worker loop
    pk,         \* a node's children as pick_action sees them, and its choice
    mp,         \* MctsParams: the value of each parameter, and the last set
    tb,         \* the tablebase handle, and the last configure and probe
    pt,         \* a NodePtr built by NodePtr::new, and what was read back
    ch,         \* the correction table, and the updates made to it
    ts,         \* SearchStats: the four thresholds, and who claimed what
    tc,         \* the callers of should_check: their place in the CAS loop
    fl,         \* InflightTable: the slots, and what its callers hold
    rb,         \* RootBackprop: the root's sums, the flag, the accumulators
    vh,         \* ValueHistory: one cell, and the callers of update
    pl          \* PolicyTable: the slots, and the last push and get

treeVars == <<half, root, cap, game, nodes, alloc, stack, pos, res, iters,
              needSwap, swaps, blocks, trail>>

ttVars == <<tt, tp>>

lockVars == <<lk, lp, lhist>>

nodeVars == <<nd, np, nh>>

halfVars == <<th, hq>>

numVars == <<pw, qr>>

stopVars == <<stop, flip, sw>>

pickVars == <<pk>>

paramVars == <<mp>>

tbVars == <<tb>>

ptrVars == <<pt>>

corrVars == <<ch>>

statVars == <<ts, tc>>

sideVars == <<fl, rb, vh, pl>>

unitVars == <<pickVars, paramVars, tbVars, ptrVars, corrVars, statVars,
              sideVars>>

vars == <<treeVars, ttVars, lockVars, nodeVars, halfVars, numVars, stopVars,
          unitVars>>

\* What the steps of one part leave alone
exTree == <<ttVars, lockVars, nodeVars, halfVars, numVars,
             stopVars, unitVars>>
exTT == <<treeVars, lockVars, nodeVars, halfVars, numVars,
           stopVars, unitVars>>
exLock == <<treeVars, ttVars, nodeVars, halfVars, numVars,
             stopVars, unitVars>>
exNode == <<treeVars, ttVars, lockVars, halfVars, numVars,
             stopVars, unitVars>>
exHalf == <<treeVars, ttVars, lockVars, nodeVars, numVars,
             stopVars, unitVars>>
exNum == <<treeVars, ttVars, lockVars, nodeVars, halfVars, stopVars, unitVars>>
exStop == <<treeVars, ttVars, lockVars, nodeVars, halfVars, numVars,
           unitVars>>

exPick == <<treeVars, ttVars, lockVars, nodeVars, halfVars, numVars,
            stopVars,
            paramVars, tbVars, ptrVars, corrVars, statVars, sideVars>>
exParam == <<treeVars, ttVars, lockVars, nodeVars, halfVars, numVars,
            stopVars,
            pickVars, tbVars, ptrVars, corrVars, statVars, sideVars>>
exTb == <<treeVars, ttVars, lockVars, nodeVars, halfVars, numVars,
            stopVars,
            pickVars, paramVars, ptrVars, corrVars, statVars, sideVars>>
exPtr == <<treeVars, ttVars, lockVars, nodeVars, halfVars, numVars,
            stopVars,
            pickVars, paramVars, tbVars, corrVars, statVars, sideVars>>
exCorr == <<treeVars, ttVars, lockVars, nodeVars, halfVars, numVars,
            stopVars,
            pickVars, paramVars, tbVars, ptrVars, statVars, sideVars>>
exStat == <<treeVars, ttVars, lockVars, nodeVars, halfVars, numVars,
            stopVars,
            pickVars, paramVars, tbVars, ptrVars, corrVars, sideVars>>

coreVars == <<treeVars, ttVars, lockVars, nodeVars, halfVars, numVars,
              stopVars,
              pickVars, paramVars, tbVars, ptrVars, corrVars, statVars>>
exInflight == <<coreVars, rb, vh, pl>>
exBackprop == <<coreVars, fl, vh, pl>>
exHistory == <<coreVars, fl, rb, pl>>
exPolicyTable == <<coreVars, fl, rb, vh>>

-----------------------------------------------------------------------------
(* Bounds of the model *)

NWorkers == 2
MaxIters == 3
MaxStarts == 4
MaxSwaps == 1
SUB == 4
NProcs == 2
MaxNodeOps == 3
MaxClears == 1
MaxHalfOps == 3
MaxExtra == 2
QSpan == 40
IterLen == 2
MaxKids == 3
MaxDirs == 2
MaxMoves == 3
MaxFeatures == 3
MaxUpdates == 3
MaxCalls == 2

(* Program constants *)

QUANT == 65536
CACHE_SIZE == 1024
MaxActions == 255

Workers == 1..NWorkers
Tid(w) == w - 1

\* A utility x stands for x / UNIT: SUB steps inside one quantum of QUANT.
UNIT == QUANT * SUB

NONE == 0 - 1

-----------------------------------------------------------------------------
(* NodePtr: <<half bit, low 31 bits>> of the packed u32 *)

IdxMax == 2147483647

NULL == <<1, IdxMax>>

PtrNew(h, idx) == <<h, idx>>

PtrHalf(p) == p[1]

PtrIdx(p) == p[2]

PtrAdd(p, k) ==
    IF k <= IdxMax - p[2]
    THEN <<p[1], p[2] + k>>
    ELSE <<(p[1] + 1) % 2, (p[2] - IdxMax) + (k - 1)>>

-----------------------------------------------------------------------------
(* GameState *)

Ongoing == <<"Ongoing", 0>>
Draw == <<"Draw", 0>>
Lost(n) == <<"Lost", n>>
Won(n) == <<"Won", n>>

IsLost(s) == s[1] = "Lost"
IsWon(s) == s[1] = "Won"

-----------------------------------------------------------------------------
(* The abstract game: positions are the move sequences from the root.      *)
(* game_state never reports Won: a win is only ever proven by propagation. *)

Horizon == 3

Games == {"mate1", "forced", "quiet", "stale"}

\* The legal moves of a position: none in the stalemate "stale"
NumMoves(g, p) == IF g = "stale" THEN 0 ELSE IF Len(p) = 0 THEN 2 ELSE 1

game_state(g, p) ==
    IF Len(p) >= Horizon \/ g = "stale" THEN Draw
    ELSE IF g = "mate1" /\ p = <<2>> THEN Lost(0)
    ELSE IF g = "forced" /\ p \in {<<1, 1>>, <<2, 1>>} THEN Lost(0)
    ELSE Ongoing

\* What the value network or a transposition-table hit may say of an
\* ongoing position.
NetVals == {1, UNIT \div 2 + 1}

-----------------------------------------------------------------------------
(* Node *)

\* fvs is a history field: the set_state calls of line 33 made on the node
\* as somebody's child since set_new
NewNode ==
    [actions |-> NULL, wl |-> FALSE, mtx |-> FALSE, nact |-> 0,
     state |-> Ongoing, threads |-> 0, mov |-> 0, policy |-> 0,
     visits |-> 0, sum_q |-> 0, sum_sq_q |-> <<0, 0>>, gini |-> 0,
     fvs |-> 0]

\* set_policy: (policy * u16::MAX) as u16, for the uniform prior 1/n
PolicyOf(n) == 65535 \div n

\* set_gini_impurity of 1 - sum p^2 for the uniform prior
GiniOf(n) == (255 * (n - 1)) \div n

\* set_new(mov, policy): clear(), then the move and the prior
set_new(m, n) == [NewNode EXCEPT !.mov = m, !.policy = PolicyOf(n)]

is_terminal(n) == n.state # Ongoing

is_not_expanded(n) == n.state = Ongoing /\ n.nact = 0

\* q * q of a quantised q <= QUANT, as <<high, low>> limbs base 2^16
\* (the product does not fit a 32-bit integer)
Square(q) ==
    LET a == q * (q \div 256)
        b == q * (q % 256)
        t == (a % 256) * 256 + b
    IN  <<(a \div 256) + (t \div 65536), t % 65536>>

AddLimbs(x, y) ==
    <<x[1] + y[1] + ((x[2] + y[2]) \div 65536), (x[2] + y[2]) % 65536>>

\* A quantisation by 16384, a quarter of QUANT
QuantiseQuarter(u) == u \div (4 * SUB)

\* (f64::from(q) * f64::from(QUANT)) as u64
Quantise(u) == u \div SUB

\* Node::update: three fetch-adds
update(n, u) ==
    [n EXCEPT !.visits = @ + 1,
              !.sum_q = @ + Quantise(u),
              !.sum_sq_q = AddLimbs(@, Square(Quantise(u)))]

inc_threads(n) == [n EXCEPT !.threads = (@ + 1) % 65536]

dec_threads(n) == [n EXCEPT !.threads = (@ + 65535) % 65536]

\* A copy that forgets the sum of squares
copy_from_no_sq(to, from) ==
    [to EXCEPT !.threads = from.threads, !.mov = from.mov,
               !.policy = from.policy, !.state = from.state,
               !.gini = from.gini, !.visits = from.visits,
               !.sum_q = from.sum_q]

\* Node::copy_from: every field but the actions lock and num_actions
copy_from(to, from) ==
    [to EXCEPT !.threads = from.threads, !.mov = from.mov,
               !.policy = from.policy, !.state = from.state,
               !.gini = from.gini, !.visits = from.visits,
               !.sum_q = from.sum_q, !.sum_sq_q = from.sum_sq_q]

\* Node::clear_actions
clear_actions(n) == [n EXCEPT !.actions = NULL, !.nact = 0]

-----------------------------------------------------------------------------
(* CustomLock, as the tree uses it: write() takes the mutex and raises the *)
(* flag, the guard's drop lowers the flag and releases the mutex, read()   *)
(* spins while the flag is up.                                             *)

\* A write() that does not wait for the mutex
CanWriteNoMutex(n) == TRUE

\* write() returns once RawMutex::lock has the mutex
CanWrite(n) == ~n.mtx

write(n) == [n EXCEPT !.mtx = TRUE, !.wl = TRUE]

\* A guard whose drop lowers the flag and keeps the mutex
drop_flag_only(n) == [n EXCEPT !.wl = FALSE]

\* WriteGuard::drop: write_locked.store(false), then the mutex is unlocked
drop(n) == [n EXCEPT !.wl = FALSE, !.mtx = FALSE]

CanRead(n) == ~n.wl

-----------------------------------------------------------------------------
(* TreeHalf *)

NewHalf == [used |-> 0, next |-> [t \in 0..(NWorkers - 1) |-> 0],
            end |-> [t \in 0..(NWorkers - 1) |-> 0]]

Max(a, b) == IF a >= b THEN a ELSE b

\* reserve_nodes_thread(num, thread) on half h: the pointer (or NULL for
\* None) and the half's cursors afterwards
reserve_nodes_thread(hf, h, num, t) ==
    IF hf.next[t] + num > hf.end[t]
    THEN LET block == Max(CACHE_SIZE, num)
             start == hf.used
             hf1 == [hf EXCEPT !.used = @ + block]
         IN  IF start + block > cap
             THEN [ptr |-> NULL, hf |-> hf1]
             ELSE [ptr |-> PtrNew(h, start),
                   hf |-> [hf1 EXCEPT !.next[t] = start + num,
                                      !.end[t] = start + block]]
    ELSE [ptr |-> PtrNew(h, hf.next[t]),
          hf |-> [hf EXCEPT !.next[t] = @ + num]]

-----------------------------------------------------------------------------
(* Frames of perform_one *)

\* seen and fv are history fields: the state line 27 read, and whether the
\* frame took the visits() == 0 branch of line 32
Frame(p) ==
    [ptr |-> p, pc |-> "enter", child |-> NULL, lock |-> FALSE,
     u |-> 0, cs |-> Ongoing, seen |-> Ongoing, fv |-> FALSE]

Depth(w) == Len(stack[w])

Top(w) == stack[w][Len(stack[w])]

At(w, label) == Depth(w) > 0 /\ Top(w).pc = label

SetTop(w, f) == [stack EXCEPT ![w][Len(stack[w])] = f]

Push(w, f, g) == [stack EXCEPT ![w] = Append(SetTop(w, f)[w], g)]

\* The top frame returns r (NONE, or a utility) to its caller, which resumes
\* after its recursive call (line 95).
Return(w, r) ==
    IF Depth(w) = 1
    THEN /\ stack' = [stack EXCEPT ![w] = <<>>]
         /\ res' = [res EXCEPT ![w] = r]
         /\ needSwap' = (needSwap \/ r = NONE)
    ELSE LET d == Depth(w) - 1
             caller == [stack[w][d] EXCEPT !.pc = "ret", !.u = r]
         IN  /\ stack' = [stack EXCEPT ![w] =
                            [SubSeq(stack[w], 1, d) EXCEPT ![d] = caller]]
             /\ UNCHANGED <<res, needSwap>>

Idle == \A w \in Workers : stack[w] = <<>>

-----------------------------------------------------------------------------
InitTree ==
    /\ half = 0
    /\ root = PtrNew(0, 0)
    /\ cap \in {CACHE_SIZE, 2 * CACHE_SIZE}
    /\ game \in Games
    /\ nodes = (PtrNew(0, 0) :> NewNode)
    /\ alloc = [h \in {0, 1} |->
                  IF h = 0
                  THEN [NewHalf EXCEPT !.used = CACHE_SIZE, !.next[0] = 1,
                                       !.end[0] = CACHE_SIZE]
                  ELSE NewHalf]
    /\ stack = [w \in Workers |-> <<>>]
    /\ pos = [w \in Workers |-> <<>>]
    /\ res = [w \in Workers |-> 0]
    /\ iters = [w \in Workers |-> 0]
    /\ needSwap = FALSE
    /\ swaps = 0
    /\ blocks = [p \in {} |-> 0]
    /\ trail = [w \in Workers |-> <<>>]

-----------------------------------------------------------------------------
(* The worker loop: one perform_one per iteration, from the root, against  *)
(* a position reset to the root position.                                  *)

RECURSIVE StartedBy(_)
\* The iterations the workers of S have started
StartedBy(S) ==
    IF S = {} THEN 0
    ELSE LET w == CHOOSE x \in S : TRUE
         IN  iters[w] + StartedBy(S \ {w})

StartIter(w) ==
    /\ stack[w] = <<>>
    /\ ~needSwap
    /\ iters[w] < MaxIters
    /\ StartedBy(Workers) < MaxStarts
    /\ stack' = [stack EXCEPT ![w] = <<Frame(root)>>]
    /\ pos' = [pos EXCEPT ![w] = <<>>]
    /\ iters' = [iters EXCEPT ![w] = @ + 1]
    /\ trail' = [trail EXCEPT ![w] = <<>>]
    /\ UNCHANGED <<exTree, half, root, cap, game, nodes, alloc, res,
                   needSwap, swaps, blocks>>

Goto(w, label) ==
    /\ stack' = SetTop(w, [Top(w) EXCEPT !.pc = label])
    /\ UNCHANGED <<exTree, half, root, cap, game, nodes, alloc, pos,
                   res, iters, needSwap, swaps, blocks, trail>>

\* line 27: node.is_terminal()
Enter(w) ==
    /\ At(w, "enter")
    /\ LET n == nodes[Top(w).ptr]
       IN  stack' = SetTop(w, [Top(w) EXCEPT
                        !.pc = IF is_terminal(n) THEN "leaf" ELSE "vis",
                        !.seen = n.state])
    /\ UNCHANGED <<exTree, half, root, cap, game, nodes, alloc, pos,
                   res, iters, needSwap, swaps, blocks, trail>>

\* line 27: node.visits() == 0
Vis(w) ==
    /\ At(w, "vis")
    /\ Goto(w, IF nodes[Top(w).ptr].visits = 0 THEN "leaf" ELSE "expchk")

\* line 32: if node.visits() == 0
Leaf(w) ==
    /\ At(w, "leaf")
    /\ LET first == nodes[Top(w).ptr].visits = 0
       IN  stack' = SetTop(w, [Top(w) EXCEPT
                        !.pc = IF first THEN "setstate" ELSE "probe",
                        !.fv = first])
    /\ UNCHANGED <<exTree, half, root, cap, game, nodes, alloc, pos,
                   res, iters, needSwap, swaps, blocks, trail>>

\* line 33: node.set_state(pos.game_state())
SetState(w) ==
    /\ At(w, "setstate")
    /\ nodes' = [nodes EXCEPT ![Top(w).ptr] =
                    [@ EXCEPT !.state = game_state(game, pos[w]),
                              !.fvs = IF Depth(w) > 1 THEN @ + 1 ELSE @]]
    /\ stack' = SetTop(w, [Top(w) EXCEPT !.pc = "probe"])
    /\ UNCHANGED <<exTree, half, root, cap, game, alloc, pos, res,
                   iters, needSwap, swaps, blocks, trail>>

\* lines 37-45: an ongoing node takes a transposition-table hit when there
\* is one; everything else goes to get_utility
Probe(w) ==
    /\ At(w, "probe")
    /\ \/ /\ nodes[Top(w).ptr].state = Ongoing
          /\ \E q \in NetVals :
                stack' = SetTop(w, [Top(w) EXCEPT !.pc = "update", !.u = q])
       \/ stack' = SetTop(w, [Top(w) EXCEPT !.pc = "util"])
    /\ UNCHANGED <<exTree, half, root, cap, game, nodes, alloc, pos,
                   res, iters, needSwap, swaps, blocks, trail>>

\* get_utility (lines 119-126) of a state
Utilities(s) ==
    IF s = Ongoing THEN NetVals
    ELSE IF s = Draw THEN {UNIT \div 2}
    ELSE IF IsLost(s) THEN {0}
    ELSE {UNIT}

Util(w) ==
    /\ At(w, "util")
    /\ \E q \in Utilities(nodes[Top(w).ptr].state) :
          stack' = SetTop(w, [Top(w) EXCEPT !.pc = "update", !.u = q])
    /\ UNCHANGED <<exTree, half, root, cap, game, nodes, alloc, pos,
                   res, iters, needSwap, swaps, blocks, trail>>

\* The perspective flip left out
FlipMissing(u) == u

\* line 111: the value this frame stores and returns
Flip(u) == UNIT - u

\* lines 111-116: flip, update, push_hash, return Some(u)
Update(w) ==
    /\ At(w, "update")
    /\ LET u == Flip(Top(w).u)
       IN  /\ nodes' = [nodes EXCEPT ![Top(w).ptr] = update(@, u)]
           /\ trail' = [trail EXCEPT ![w] = Append(@, Quantise(u))]
           /\ Return(w, u)
    /\ UNCHANGED <<exTree, half, root, cap, game, alloc, pos, iters,
                   swaps, blocks>>

\* The call of fetch_children left out
AfterExpandNoFetch == "select"

\* line 65: after the expansion, tree.fetch_children(ptr, thread_id)
AfterExpand == "fetch"

\* line 48: if node.is_not_expanded()
ExpChk(w) ==
    /\ At(w, "expchk")
    /\ Goto(w, IF is_not_expanded(nodes[Top(w).ptr]) THEN "xlock" ELSE AfterExpand)

BlocksOf(p) == IF p \in DOMAIN blocks THEN blocks[p] ELSE 0

\* expand_node: take the node's actions lock
XLock(w) ==
    /\ At(w, "xlock")
    /\ CanWrite(nodes[Top(w).ptr])
    /\ nodes' = [nodes EXCEPT ![Top(w).ptr] = write(@)]
    /\ stack' = SetTop(w, [Top(w) EXCEPT !.pc = "xbody"])
    /\ UNCHANGED <<exTree, half, root, cap, game, alloc, pos, res,
                   iters, needSwap, swaps, blocks, trail>>

\* expand_node under the lock: nothing to do when the node was expanded
\* meanwhile; else reserve the child block in the active half (None on
\* failure), write the child stubs and store the actions pointer
XBody(w) ==
    /\ At(w, "xbody")
    /\ LET p == Top(w).ptr
           n == NumMoves(game, pos[w])
           r == reserve_nodes_thread(alloc[half], half, n, Tid(w))
           stubs == [c \in {PtrAdd(r.ptr, i) : i \in 0..(n - 1)} |->
                        set_new(PtrIdx(c) - PtrIdx(r.ptr) + 1, n)]
       IN  IF ~is_not_expanded(nodes[p])
           THEN /\ nodes' = [nodes EXCEPT ![p] = drop(@)]
                /\ stack' = SetTop(w, [Top(w) EXCEPT !.pc = AfterExpand])
                /\ UNCHANGED <<alloc, blocks, res, needSwap>>
           ELSE /\ alloc' = [alloc EXCEPT ![half] = r.hf]
                /\ IF r.ptr = NULL
                   THEN /\ nodes' = [nodes EXCEPT ![p] = drop(@)]
                        /\ Return(w, NONE)
                        /\ UNCHANGED blocks
                   ELSE /\ nodes' = stubs @@ [nodes EXCEPT ![p].actions = r.ptr]
                        /\ blocks' = (p :> (BlocksOf(p) + 1)) @@ blocks
                        /\ stack' = SetTop(w, [Top(w) EXCEPT !.pc = "xfin"])
                        /\ UNCHANGED <<res, needSwap>>
    /\ UNCHANGED <<exTree, half, root, cap, game, pos, iters, swaps,
                   trail>>

\* expand_node: num_actions and the gini impurity, then the guard drops
XFin(w) ==
    /\ At(w, "xfin")
    /\ LET n == NumMoves(game, pos[w])
       IN  nodes' = [nodes EXCEPT ![Top(w).ptr] =
                        drop([@ EXCEPT !.nact = n, !.gini = GiniOf(n)])]
    /\ stack' = SetTop(w, [Top(w) EXCEPT !.pc = AfterExpand])
    /\ UNCHANGED <<exTree, half, root, cap, game, alloc, pos, res,
                   iters, needSwap, swaps, blocks, trail>>

InOtherHalf(a) == a # NULL /\ PtrHalf(a) # half

\* line 65, fetch_children: do the node's actions point into the other half?
Fetch(w) ==
    /\ At(w, "fetch")
    /\ CanRead(nodes[Top(w).ptr])
    /\ Goto(w, IF InOtherHalf(nodes[Top(w).ptr].actions) THEN "flock" ELSE "select")

FLock(w) ==
    /\ At(w, "flock")
    /\ CanWrite(nodes[Top(w).ptr])
    /\ nodes' = [nodes EXCEPT ![Top(w).ptr] = write(@)]
    /\ stack' = SetTop(w, [Top(w) EXCEPT !.pc = "fbody"])
    /\ UNCHANGED <<exTree, half, root, cap, game, alloc, pos, res,
                   iters, needSwap, swaps, blocks, trail>>

\* The copy of a node into a fresh slot: copy_from, and the link to its
\* children carried over
CopyNode(src) ==
    [copy_from(NewNode, src) EXCEPT !.actions = src.actions, !.nact = src.nact]

\* The block of n nodes at `from', copied to `to'
CopyBlock(mem, from, to, n) ==
    [c \in {PtrAdd(to, i) : i \in 0..(n - 1)} |->
        CopyNode(mem[PtrAdd(from, PtrIdx(c) - PtrIdx(to))])]

\* fetch_children under the lock: copy the child block into the active half
\* and relink (None when the half is full)
FBody(w) ==
    /\ At(w, "fbody")
    /\ LET p == Top(w).ptr
           a == nodes[p].actions
           n == nodes[p].nact
           r == reserve_nodes_thread(alloc[half], half, n, Tid(w))
       IN  IF ~InOtherHalf(a)
           THEN /\ nodes' = [nodes EXCEPT ![p] = drop(@)]
                /\ stack' = SetTop(w, [Top(w) EXCEPT !.pc = "select"])
                /\ UNCHANGED <<alloc, res, needSwap>>
           ELSE /\ alloc' = [alloc EXCEPT ![half] = r.hf]
                /\ IF r.ptr = NULL
                   THEN /\ nodes' = [nodes EXCEPT ![p] = drop(@)]
                        /\ Return(w, NONE)
                   ELSE /\ nodes' = CopyBlock(nodes, a, r.ptr, n) @@
                                      [nodes EXCEPT ![p] =
                                          drop([@ EXCEPT !.actions = r.ptr])]
                        /\ stack' = SetTop(w, [Top(w) EXCEPT !.pc = "select"])
                        /\ UNCHANGED <<res, needSwap>>
    /\ UNCHANGED <<exTree, half, root, cap, game, pos, iters, swaps,
                   blocks, trail>>

\* lines 72-84: pick_action, the child, make_move, inc_threads.  A node
\* without children offers no action: the worker goes no further.
Select(w) ==
    /\ At(w, "select")
    /\ CanRead(nodes[Top(w).ptr])
    /\ \E action \in 0..(nodes[Top(w).ptr].nact - 1) :
          LET c == PtrAdd(nodes[Top(w).ptr].actions, action)
          IN  /\ pos' = [pos EXCEPT ![w] = Append(@, nodes[c].mov)]
              /\ nodes' = [nodes EXCEPT ![c] = inc_threads(@)]
              /\ stack' = SetTop(w, [Top(w) EXCEPT !.pc = "chk", !.child = c])
    /\ UNCHANGED <<exTree, half, root, cap, game, alloc, res, iters,
                   needSwap, swaps, blocks, trail>>

\* A descent that never takes the parent's lock
NeedsLockNever(c) == FALSE

\* line 88: if tree[child_ptr].visits() == 0
NeedsLock(c) == c.visits = 0

\* line 88: the parent's lock is taken when the child has no visits yet;
\* line 95 then descends
ChkChild(w) ==
    /\ At(w, "chk")
    /\ IF NeedsLock(nodes[Top(w).child])
       THEN stack' = SetTop(w, [Top(w) EXCEPT !.pc = "lock89"])
       ELSE stack' = Push(w, [Top(w) EXCEPT !.pc = "call"], Frame(Top(w).child))
    /\ UNCHANGED <<exTree, half, root, cap, game, nodes, alloc, pos,
                   res, iters, needSwap, swaps, blocks, trail>>

\* line 89: node.actions_mut(), held across the recursive call
Lock89(w) ==
    /\ At(w, "lock89")
    /\ CanWrite(nodes[Top(w).ptr])
    /\ nodes' = [nodes EXCEPT ![Top(w).ptr] = write(@)]
    /\ stack' = Push(w, [Top(w) EXCEPT !.pc = "call", !.lock = TRUE],
                     Frame(Top(w).child))
    /\ UNCHANGED <<exTree, half, root, cap, game, alloc, pos, res,
                   iters, needSwap, swaps, blocks, trail>>

\* The ? on the child's result applied before dec_threads
RetNodesEarlyReturn(f) ==
    LET m1 == IF f.lock THEN [nodes EXCEPT ![f.ptr] = drop(@)] ELSE nodes
    IN  IF f.u = NONE THEN m1 ELSE [m1 EXCEPT ![f.child] = dec_threads(@)]

\* lines 97-99: drop(lock), then dec_threads on the child, whatever the
\* recursive call returned
RetNodes(f) ==
    LET m1 == IF f.lock THEN [nodes EXCEPT ![f.ptr] = drop(@)] ELSE nodes
    IN  [m1 EXCEPT ![f.child] = dec_threads(@)]

\* A None from the recursive call taken for a value
AbortedNever(f) == FALSE

\* line 101: maybe_u? returns None when the recursive call returned None
Aborted(f) == f.u = NONE

\* lines 97-101: drop(lock), dec_threads, and the ? on the child's result
Ret(w) ==
    /\ At(w, "ret")
    /\ LET f == Top(w)
       IN  /\ nodes' = RetNodes(f)
           /\ IF Aborted(f)
              THEN Return(w, NONE)
              ELSE /\ stack' = SetTop(w, [f EXCEPT !.pc = "prop", !.lock = FALSE])
                   /\ UNCHANGED <<res, needSwap>>
    /\ UNCHANGED <<exTree, half, root, cap, game, alloc, pos, iters,
                   swaps, blocks, trail>>

\* The state of the node itself read in place of the child's
ChildStateOfSelf(f) == nodes[f.ptr].state

\* line 103: tree[child_ptr].state()
ChildState(f) == nodes[f.child].state

\* line 103: the child's state, read for propogate_proven_mates
Prop(w) ==
    /\ At(w, "prop")
    /\ LET s == ChildState(Top(w))
       IN  stack' = SetTop(w, [Top(w) EXCEPT
                        !.cs = s,
                        !.pc = IF IsLost(s) THEN "propL"
                               ELSE IF IsWon(s) THEN "propW" ELSE "update"])
    /\ UNCHANGED <<exTree, half, root, cap, game, nodes, alloc, pos,
                   res, iters, needSwap, swaps, blocks, trail>>

\* propogate_proven_mates, child Lost(n): this node is Won(n + 1)
PropL(w) ==
    /\ At(w, "propL")
    /\ nodes' = [nodes EXCEPT ![Top(w).ptr].state = Won(Top(w).cs[2] + 1)]
    /\ stack' = SetTop(w, [Top(w) EXCEPT !.pc = "update"])
    /\ UNCHANGED <<exTree, half, root, cap, game, alloc, pos, res,
                   iters, needSwap, swaps, blocks, trail>>

SetMin(S) == CHOOSE x \in S : \A y \in S : x <= y

\* propogate_proven_mates, child Won(n): when every child is Won, this node
\* is Lost(1 + the smallest distance)
PropW(w) ==
    /\ At(w, "propW")
    /\ CanRead(nodes[Top(w).ptr])
    /\ LET p == Top(w).ptr
           kids == {PtrAdd(nodes[p].actions, i) : i \in 0..(nodes[p].nact - 1)}
       IN  IF \A c \in kids : IsWon(nodes[c].state)
           THEN nodes' = [nodes EXCEPT ![p].state =
                            Lost(1 + SetMin({nodes[c].state[2] : c \in kids}))]
           ELSE nodes' = nodes
    /\ stack' = SetTop(w, [Top(w) EXCEPT !.pc = "update"])
    /\ UNCHANGED <<exTree, half, root, cap, game, alloc, pos, res,
                   iters, needSwap, swaps, blocks, trail>>

-----------------------------------------------------------------------------
(* The half-swap, on the main worker, once no iteration is in flight *)

RelocDepth == 2

RECURSIVE Relocate(_, _, _)
\* Breadth first from the queue of <<copied node, levels left>>: reserve a
\* block in the new half h, copy the children, relink the copy
Relocate(st, h, queue) ==
    IF queue = <<>> THEN st
    ELSE LET p == Head(queue)[1]
             k == Head(queue)[2]
             n == st.mem[p]
             r == reserve_nodes_thread(st.hf, h, n.nact, 0)
         IN  IF k = 0 \/ n.actions = NULL \/ PtrHalf(n.actions) = h
             THEN Relocate(st, h, Tail(queue))
             ELSE IF r.ptr = NULL
             THEN [st EXCEPT !.hf = r.hf]
             ELSE Relocate(
                    [mem |-> CopyBlock(st.mem, n.actions, r.ptr, n.nact) @@
                               [st.mem EXCEPT ![p].actions = r.ptr],
                     hf |-> r.hf],
                    h,
                    Tail(queue) \o [i \in 1..n.nact |->
                                      <<PtrAdd(r.ptr, i - 1), k - 1>>])

Swap ==
    /\ needSwap
    /\ Idle
    /\ swaps < MaxSwaps
    /\ \E k \in 0..RelocDepth :
          LET new == 1 - half
              \* the other half becomes active and is cleared; links of the
              \* old half into it are cleared
              kept == {p \in DOMAIN nodes : PtrHalf(p) = half}
              m1 == [p \in kept |->
                        IF nodes[p].actions # NULL /\ PtrHalf(nodes[p].actions) = new
                        THEN clear_actions(nodes[p]) ELSE nodes[p]]
              r == reserve_nodes_thread(NewHalf, new, 1, 0)
              st == Relocate([mem |-> (r.ptr :> CopyNode(m1[root])) @@ m1,
                              hf |-> r.hf], new, <<<<r.ptr, k>>>>)
          IN  /\ nodes' = st.mem
              /\ alloc' = [alloc EXCEPT ![new] = st.hf]
              /\ root' = r.ptr
              /\ half' = new
              /\ blocks' = [p \in {q \in DOMAIN blocks \cap kept :
                                      m1[q].actions # NULL} |-> blocks[p]]
    /\ needSwap' = FALSE
    /\ swaps' = swaps + 1
    /\ UNCHANGED <<exTree, cap, game, stack, pos, res, iters,
                   trail>>

Worker(w) ==
    \/ StartIter(w)
    \/ Enter(w)
    \/ Vis(w)
    \/ Leaf(w)
    \/ SetState(w)
    \/ Probe(w)
    \/ Util(w)
    \/ Update(w)
    \/ ExpChk(w)
    \/ XLock(w)
    \/ XBody(w)
    \/ XFin(w)
    \/ Fetch(w)
    \/ FLock(w)
    \/ FBody(w)
    \/ Select(w)
    \/ ChkChild(w)
    \/ Lock89(w)
    \/ Ret(w)
    \/ Prop(w)
    \/ PropL(w)
    \/ PropW(w)

NextTree == Swap \/ \E w \in Workers : Worker(w)

-----------------------------------------------------------------------------
(* HashTable (tree/hash.rs).  An entry is two separate atomics, key and    *)
(* data; data packs visits and a 32-bit fixed-point q.  A 32-bit quantity  *)
(* is a pair <<high, low>> of 16-bit limbs.  The field src of a data word  *)
(* is history: the hashes whose pushed values the word was computed from.  *)

TTSize == 2

MaxHash == 3

TProcs == 2

MaxOps == 4

MaxSideOps == 1

LIMB == 2 ^ 16

RECURSIVE next_power_of_two(_, _)
next_power_of_two(n, p) == IF p >= n THEN p ELSE next_power_of_two(n, 2 * p)

TableLen == next_power_of_two(TTSize, 1)

mask == TableLen - 1

Hashes == 1..MaxHash

\* val as f64 times Q_SCALE: 1/3 as an f32 (0x3EAAAAAB), and 1.0
Vals == {<<21845, 21888>>, <<LIMB, 0>>}

TTProcs == 1..TProcs

Idx0(h) == h % (mask + 1)

Idx1(h) == IF Idx0(h) % 2 = 0 THEN Idx0(h) + 1 ELSE Idx0(h) - 1

Norm(hi, lo) == <<hi + (lo \div LIMB), lo % LIMB>>

LimbSub(a, b) == Norm(a[1] - b[1], a[2] - b[2])

LimbAdd(a, b) == Norm(a[1] + b[1], a[2] + b[2])

LimbDiv(d, n) == <<d[1] \div n, ((d[1] % n) * LIMB + d[2]) \div n>>

LimbLeq(a, b) == a[1] < b[1] \/ (a[1] = b[1] /\ a[2] <= b[2])

ClampMax == <<LIMB - 1, LIMB - 2>>

\* A conversion to u32 that wraps, without the clamp
pack_data_wrapping(visits, q, src) ==
    [visits |-> visits, q |-> <<q[1] % LIMB, q[2]>>, src |-> src]

\* (q * Q_SCALE).min(u32::MAX - 1) as u32, under the visits
pack_data(visits, q, src) ==
    [visits |-> visits,
     q |-> IF LimbLeq(q, ClampMax) THEN q ELSE ClampMax,
     src |-> src]

ZeroData == [visits |-> 0, q |-> <<0, 0>>, src |-> {}]

RECURSIVE BitLen(_)
BitLen(n) == IF n = 0 THEN 0 ELSE 1 + BitLen(n \div 2)

\* q as f32: round to nearest, ties to even, at 24 significant bits
AsF32(q) ==
    LET s == BitLen(q[1]) - 8
    IN  IF s <= 0 THEN q
        ELSE LET r == q[2] % (2 ^ s)
                 base == q[2] - r
                 odd == (base \div (2 ^ s)) % 2 = 1
                 up == r > 2 ^ (s - 1) \/ (r = 2 ^ (s - 1) /\ odd)
             IN  Norm(q[1], IF up THEN base + 2 ^ s ELSE base)

update_value(cur, val, h) ==
    LET new_visits == cur.visits + 1
        new_q == LimbAdd(cur.q, LimbDiv(LimbSub(val, cur.q), new_visits))
    IN  pack_data(new_visits, new_q, cur.src \cup {h})

NoOut == [tag |-> "none", q |-> <<0, 0>>, visits |-> 0, src |-> {}]

NoPush == [h |-> 0, val |-> <<0, 0>>, path |-> "none", old |-> ZeroData]

NewProc ==
    [pc |-> "idle", h |-> 0, val |-> <<0, 0>>, e |-> 0, d0 |-> ZeroData,
     d1 |-> ZeroData, k1 |-> 0, dat |-> ZeroData, ops |-> 0, out |-> NoOut,
     last |-> NoPush, after |-> NoPush]

InitTT ==
    /\ tt = [i \in 0..mask |-> [key |-> 0, data |-> ZeroData]]
    /\ tp = [p \in TTProcs |-> NewProc]

TSet(p, r) ==
    /\ tp' = [tp EXCEPT ![p] = r]
    /\ UNCHANGED exTT

\* the operation returns: its locals are dead
TReturn(p, r) ==
    TSet(p, [r EXCEPT !.pc = "idle", !.ops = @ + 1, !.e = 0, !.val = <<0, 0>>,
                      !.d0 = ZeroData, !.d1 = ZeroData, !.k1 = 0,
                      !.dat = ZeroData])

RECURSIVE OpsDone(_)
OpsDone(n) == IF n = 0 THEN 0 ELSE tp[n].ops + OpsDone(n - 1)

\* MaxOps operations in all, of which every caller but the first starts at
\* most MaxSideOps
MayStart(p) ==
    /\ tp[p].pc = "idle"
    /\ OpsDone(TProcs) < MaxOps
    /\ p = 1 \/ tp[p].ops < MaxSideOps

TPush(p) ==
    /\ MayStart(p)
    /\ \E h \in Hashes, val \in Vals :
          TSet(p, [tp[p] EXCEPT !.pc = "push_k0", !.h = h, !.val = val,
                                !.out = NoOut])
    /\ UNCHANGED tt

PushDone(p, r, path, old) ==
    TReturn(p, [r EXCEPT !.last = [h |-> r.h, val |-> r.val, path |-> path,
                                   old |-> old]])

PushKey0(p) ==
    /\ tp[p].pc = "push_k0"
    /\ IF tt[Idx0(tp[p].h)].key = tp[p].h
       THEN TSet(p, [tp[p] EXCEPT !.pc = "upd_load", !.e = Idx0(tp[p].h)])
       ELSE TSet(p, [tp[p] EXCEPT !.pc = "push_k1"])
    /\ UNCHANGED tt

PushKey1(p) ==
    /\ tp[p].pc = "push_k1"
    /\ IF tt[Idx1(tp[p].h)].key = tp[p].h
       THEN TSet(p, [tp[p] EXCEPT !.pc = "upd_load", !.e = Idx1(tp[p].h)])
       ELSE TSet(p, [tp[p] EXCEPT !.pc = "ins_d0"])
    /\ UNCHANGED tt

UpdLoad(p) ==
    /\ tp[p].pc = "upd_load"
    /\ TSet(p, [tp[p] EXCEPT !.pc = "upd_store", !.dat = tt[tp[p].e].data])
    /\ UNCHANGED tt

UpdStore(p) ==
    /\ tp[p].pc = "upd_store"
    /\ tt' = [tt EXCEPT ![tp[p].e].data =
                 update_value(tp[p].dat, tp[p].val, tp[p].h)]
    /\ PushDone(p, tp[p], "upd", tp[p].dat)

InsD0(p) ==
    /\ tp[p].pc = "ins_d0"
    /\ TSet(p, [tp[p] EXCEPT !.pc = "ins_k0", !.d0 = tt[Idx0(tp[p].h)].data])
    /\ UNCHANGED tt

InsK0(p) ==
    /\ tp[p].pc = "ins_k0"
    /\ IF tt[Idx0(tp[p].h)].key = 0
       THEN TSet(p, [tp[p] EXCEPT !.pc = "ow_data", !.e = Idx0(tp[p].h)])
       ELSE TSet(p, [tp[p] EXCEPT !.pc = "ins_d1"])
    /\ UNCHANGED tt

InsD1(p) ==
    /\ tp[p].pc = "ins_d1"
    /\ TSet(p, [tp[p] EXCEPT !.pc = "ins_k1", !.d1 = tt[Idx1(tp[p].h)].data])
    /\ UNCHANGED tt

\* A replacement that never promotes slot 1
PromotesNever(v1, v0) == FALSE

\* line 196: if v1 > v0
Promotes(v1, v0) == v1 > v0

InsK1(p) ==
    /\ tp[p].pc = "ins_k1"
    /\ LET k1 == tt[Idx1(tp[p].h)].key
       IN  IF k1 # 0 /\ Promotes(tp[p].d1.visits, tp[p].d0.visits)
           THEN TSet(p, [tp[p] EXCEPT !.pc = "promo_data", !.k1 = k1])
           ELSE TSet(p, [tp[p] EXCEPT !.pc = "ow_data", !.e = Idx1(tp[p].h)])
    /\ UNCHANGED tt

PromoData(p) ==
    /\ tp[p].pc = "promo_data"
    /\ tt' = [tt EXCEPT ![Idx0(tp[p].h)].data = tp[p].d1]
    /\ TSet(p, [tp[p] EXCEPT !.pc = "promo_key"])

PromoKey(p) ==
    /\ tp[p].pc = "promo_key"
    /\ tt' = [tt EXCEPT ![Idx0(tp[p].h)].key = tp[p].k1]
    /\ TSet(p, [tp[p] EXCEPT !.pc = "ow_data", !.e = Idx1(tp[p].h)])

OwData(p) ==
    /\ tp[p].pc = "ow_data"
    /\ tt' = [tt EXCEPT ![tp[p].e].data = pack_data(1, tp[p].val, {tp[p].h})]
    /\ TSet(p, [tp[p] EXCEPT !.pc = "ow_key"])

OwKey(p) ==
    /\ tp[p].pc = "ow_key"
    /\ tt' = [tt EXCEPT ![tp[p].e].key = tp[p].h]
    /\ PushDone(p, tp[p], "ins", ZeroData)

TGet(p) ==
    /\ MayStart(p)
    /\ \E h \in Hashes :
          TSet(p, [tp[p] EXCEPT !.pc = "get_key", !.h = h, !.e = 0,
                                !.out = NoOut, !.after = tp[p].last,
                                !.last = NoPush])
    /\ UNCHANGED tt

GetSlots(h) == <<Idx0(h), Idx1(h)>>

\* read_entry found nothing in its slot: the next slot, or None
GetMiss(p) ==
    IF tp[p].e + 1 < Len(GetSlots(tp[p].h))
    THEN TSet(p, [tp[p] EXCEPT !.pc = "get_key", !.e = @ + 1])
    ELSE TReturn(p, [tp[p] EXCEPT !.out = [NoOut EXCEPT !.tag = "None"]])

GetEntry(p) == tt[GetSlots(tp[p].h)[tp[p].e + 1]]

GetKey(p) ==
    /\ tp[p].pc = "get_key"
    /\ IF GetEntry(p).key = tp[p].h
       THEN TSet(p, [tp[p] EXCEPT !.pc = "get_data"])
       ELSE GetMiss(p)
    /\ UNCHANGED tt

GetData(p) ==
    /\ tp[p].pc = "get_data"
    /\ TSet(p, [tp[p] EXCEPT !.pc = "get_key2", !.dat = GetEntry(p).data])
    /\ UNCHANGED tt

GetKey2(p) ==
    /\ tp[p].pc = "get_key2"
    /\ IF GetEntry(p).key = tp[p].h
       THEN TReturn(p, [tp[p] EXCEPT
                          !.out = [tag |-> "Some", q |-> AsF32(tp[p].dat.q),
                                   visits |-> tp[p].dat.visits,
                                   src |-> tp[p].dat.src]])
       ELSE GetMiss(p)
    /\ UNCHANGED tt

TStep(p) ==
    \/ TPush(p)
    \/ PushKey0(p)
    \/ PushKey1(p)
    \/ UpdLoad(p)
    \/ UpdStore(p)
    \/ InsD0(p)
    \/ InsK0(p)
    \/ InsD1(p)
    \/ InsK1(p)
    \/ PromoData(p)
    \/ PromoKey(p)
    \/ OwData(p)
    \/ OwKey(p)
    \/ TGet(p)
    \/ GetKey(p)
    \/ GetData(p)
    \/ GetKey2(p)

NextTT == \E p \in TTProcs : TStep(p)

NextTTSeq == TStep(1)

\* Every hash of the range, 0 among them: 0 is also the key of an entry
\* that new() or clear() has zeroed
AnyHashes == 0..MaxHash

\* The table with one caller that records the hashes it pushes
InitTTAny ==
    /\ tt = [i \in 0..mask |-> [key |-> 0, data |-> ZeroData]]
    /\ tp = [p \in TTProcs |-> [pushed |-> {}, clears |-> 0] @@ NewProc]

\* push(hash, val) of any hash
TPushAny(p) ==
    /\ MayStart(p)
    /\ \E h \in AnyHashes, val \in Vals :
          TSet(p, [tp[p] EXCEPT !.pc = "push_k0", !.h = h, !.val = val,
                                !.out = NoOut, !.pushed = @ \cup {h}])
    /\ UNCHANGED tt

\* get(hash) of any hash
TGetAny(p) ==
    /\ MayStart(p)
    /\ \E h \in AnyHashes :
          TSet(p, [tp[p] EXCEPT !.pc = "get_key", !.h = h, !.e = 0,
                                !.out = NoOut, !.after = tp[p].last,
                                !.last = NoPush])
    /\ UNCHANGED tt

\* clear(&mut self): every entry is zeroed; the caller is the only one
TClear(p) ==
    /\ tp[p].pc = "idle"
    /\ tp[p].clears < MaxClears
    /\ tp[p].pushed # {}
    /\ tt' = [i \in 0..mask |-> [key |-> 0, data |-> ZeroData]]
    /\ TSet(p, [tp[p] EXCEPT !.pushed = {}, !.clears = @ + 1,
                              !.out = NoOut, !.last = NoPush])

NextTTAny ==
    \/ TPushAny(1)
    \/ TGetAny(1)
    \/ TClear(1)
    \/ PushKey0(1)
    \/ PushKey1(1)
    \/ UpdLoad(1)
    \/ UpdStore(1)
    \/ InsD0(1)
    \/ InsK0(1)
    \/ InsD1(1)
    \/ InsK1(1)
    \/ PromoData(1)
    \/ PromoKey(1)
    \/ OwData(1)
    \/ OwKey(1)
    \/ GetKey(1)
    \/ GetData(1)
    \/ GetKey2(1)

-----------------------------------------------------------------------------
(* CustomLock (tree/lock.rs): a raw mutex, the flag write_locked and the   *)
(* atomic value.  Every load and store is a step.  A write section is what *)
(* the callers of write() do with the guard: at most one store, then drop. *)

LProcs == 3

MaxSections == 3

LockProcs == 1..LProcs

\* NodePtr values stored by the callers; NULL is the initial value of a
\* node's actions
LVals == {PtrNew(0, 1), PtrNew(0, 2)}

InitLock ==
    /\ lk = [value |-> NULL, write_locked |-> FALSE, mutex |-> FALSE]
    /\ lp = [p \in LockProcs |-> [pc |-> "idle", v |-> <<>>, got |-> NULL,
                                  n |-> 0]]
    /\ lhist = [pre |-> NULL, reads |-> {}, open |-> FALSE,
                final |-> NULL]

LPut(p, r) ==
    /\ lp' = [lp EXCEPT ![p] = r]
    /\ UNCHANGED exLock

LSet(p, pc) == LPut(p, [lp[p] EXCEPT !.pc = pc])

RECURSIVE Sections(_)
Sections(n) == IF n = 0 THEN 0 ELSE lp[n].n + Sections(n - 1)

\* a caller starts write() with <<the value it will store>>, or <<>> when it
\* will store none
LWrite(p) ==
    /\ lp[p].pc = "idle"
    /\ Sections(LProcs) < MaxSections
    /\ \E v \in {<<>>} \cup {<<x>> : x \in LVals} :
          LPut(p, [pc |-> "w_mutex", v |-> v, got |-> NULL,
                   n |-> lp[p].n + 1])
    /\ UNCHANGED <<lk, lhist>>

MutexFreeAlways(l) == TRUE

MutexFree(l) == ~l.mutex

\* write(): self.lock.lock()
WMutex(p) ==
    /\ lp[p].pc = "w_mutex"
    /\ MutexFree(lk)
    /\ lk' = [lk EXCEPT !.mutex = TRUE]
    /\ lhist' = [pre |-> lk.value, reads |-> {}, open |-> TRUE,
                 final |-> lk.value]
    /\ LSet(p, "w_flag")

\* write(): self.write_locked.store(true)
WFlag(p) ==
    /\ lp[p].pc = "w_flag"
    /\ lk' = [lk EXCEPT !.write_locked = TRUE]
    /\ LSet(p, IF lp[p].v = <<>> THEN "w_drop" ELSE "w_store")
    /\ UNCHANGED lhist

\* WriteGuard::store
WStore(p) ==
    /\ lp[p].pc = "w_store"
    /\ lk' = [lk EXCEPT !.value = lp[p].v[1]]
    /\ LSet(p, "w_drop")
    /\ UNCHANGED lhist

\* drop: self.0.write_locked.store(false)
WDropFlag(p) ==
    /\ lp[p].pc = "w_drop"
    /\ lk' = [lk EXCEPT !.write_locked = FALSE]
    /\ LSet(p, "w_unlock")
    /\ UNCHANGED lhist

\* drop: self.0.lock.unlock()
WUnlock(p) ==
    /\ lp[p].pc = "w_unlock"
    /\ lk' = [lk EXCEPT !.mutex = FALSE]
    /\ lhist' = [lhist EXCEPT !.open = FALSE, !.final = lk.value]
    /\ LSet(p, "idle")

LRead(p) ==
    /\ lp[p].pc = "idle"
    /\ Sections(LProcs) < MaxSections
    /\ LPut(p, [pc |-> "r_spin", v |-> <<>>, got |-> NULL,
                n |-> lp[p].n + 1])
    /\ UNCHANGED <<lk, lhist>>

\* read(): while self.write_locked.load() { spin_loop() }
RSpin(p) ==
    /\ lp[p].pc = "r_spin"
    /\ ~lk.write_locked
    /\ LSet(p, "r_load")
    /\ UNCHANGED <<lk, lhist>>

\* read(): NodePtr::from_raw(self.value.load())
RLoad(p) ==
    /\ lp[p].pc = "r_load"
    /\ LPut(p, [lp[p] EXCEPT !.pc = "idle", !.got = lk.value])
    /\ lhist' = IF lhist.open
                THEN [lhist EXCEPT !.reads = @ \cup {lk.value}]
                ELSE lhist
    /\ UNCHANGED lk

LStep(p) ==
    \/ LWrite(p)
    \/ WMutex(p)
    \/ WFlag(p)
    \/ WStore(p)
    \/ WDropFlag(p)
    \/ WUnlock(p)
    \/ LRead(p)
    \/ RSpin(p)
    \/ RLoad(p)

NextLock == \E p \in LockProcs : LStep(p)

-----------------------------------------------------------------------------
(* One Node under concurrent callers of its methods (tree/node.rs).  Every *)
(* atomic load, store and fetch-add is a step.  clear() runs on a slot that *)
(* its thread has just reserved again, while no other method is running.   *)

NodeProcs == 1..NProcs

\* The utilities handed to update
NodeUtils == {UNIT \div 2, UNIT}

\* The child block an expansion links
NodeBlock == PtrNew(0, 1)

NIdle == [pc |-> "idle", q |-> 0, old_v |-> 0, old_q |-> 0, v |-> 0,
          ret |-> NONE, last |-> "none", ops |-> 0]

InitNode ==
    /\ nd = NewNode
    /\ np = [p \in NodeProcs |-> NIdle]
    /\ nh = [clears |-> 0, updates |-> 0, dropped |-> 0]

NSet(p, r) ==
    /\ np' = [np EXCEPT ![p] = r]
    /\ UNCHANGED exNode

NReturn(p, what, value) ==
    [NIdle EXCEPT !.ret = value, !.last = what, !.ops = np[p].ops]

ClearPcs == {"calock", "castore", "cadrop", "canum", "clstate", "clgini",
             "clvis", "clsum", "clsq", "clthr"}

Clearing == \E p \in NodeProcs : np[p].pc \in ClearPcs

NMayStart(p) ==
    /\ np[p].pc = "idle"
    /\ np[p].ops < MaxNodeOps
    /\ ~Clearing

NStart(p, pc) == [NIdle EXCEPT !.pc = pc, !.ops = np[p].ops + 1]

\* Node::update(q): the quantised q
NUpdate(p) ==
    \E u \in NodeUtils :
        /\ NMayStart(p)
        /\ NSet(p, [NStart(p, "uvis") EXCEPT !.q = Quantise(u)])
        /\ UNCHANGED <<nd, nh>>

\* A fetch-add on a counter too narrow for its count: it wraps
fetch_add_narrow(v, d) == (v + d) % 2

\* AtomicU32::fetch_add, AtomicU64::fetch_add (no sum of the model wraps)
fetch_add(v, d) == v + d

\* old_v = visits.fetch_add(1)
UVis(p) ==
    /\ np[p].pc = "uvis"
    /\ nd' = [nd EXCEPT !.visits = fetch_add(@, 1)]
    /\ nh' = [nh EXCEPT !.updates = @ + 1]
    /\ NSet(p, [np[p] EXCEPT !.pc = "usum", !.old_v = nd.visits])

\* old_q = sum_q.fetch_add(q)
USum(p) ==
    /\ np[p].pc = "usum"
    /\ nd' = [nd EXCEPT !.sum_q = fetch_add(@, np[p].q)]
    /\ NSet(p, [np[p] EXCEPT !.pc = "usq", !.old_q = nd.sum_q])
    /\ UNCHANGED nh

\* The value update returns, in units of 1 / QUANT
update_value_of(q, old_q, old_v) == (q + old_q) \div (1 + old_v)

\* sum_sq_q.fetch_add(q * q), and the return
USq(p) ==
    /\ np[p].pc = "usq"
    /\ nd' = [nd EXCEPT !.sum_sq_q = AddLimbs(@, Square(np[p].q))]
    /\ NSet(p, NReturn(p, "update",
                       update_value_of(np[p].q, np[p].old_q, np[p].old_v)))
    /\ UNCHANGED nh

\* Node::q64
NQ(p) ==
    /\ NMayStart(p)
    /\ NSet(p, NStart(p, "qvis"))
    /\ UNCHANGED <<nd, nh>>

\* visits.load(); zero visits return 0.0
QVis(p) ==
    /\ np[p].pc = "qvis"
    /\ IF nd.visits = 0
       THEN NSet(p, NReturn(p, "q", 0))
       ELSE NSet(p, [np[p] EXCEPT !.pc = "qsum", !.v = nd.visits])
    /\ UNCHANGED <<nd, nh>>

\* sum_q.load(), divided by the visits loaded before
QSum(p) ==
    /\ np[p].pc = "qsum"
    /\ NSet(p, NReturn(p, "q", nd.sum_q \div np[p].v))
    /\ UNCHANGED <<nd, nh>>

\* expand_node on the node: the write lock, the check under it, then the
\* pointer to the child block and the number of children
NExpand(p) ==
    /\ NMayStart(p)
    /\ CanWrite(nd)
    /\ nd' = write(nd)
    /\ NSet(p, NStart(p, "xpchk"))
    /\ UNCHANGED nh

XpChk(p) ==
    /\ np[p].pc = "xpchk"
    /\ IF is_not_expanded(nd)
       THEN NSet(p, [np[p] EXCEPT !.pc = "xpact"]) /\ UNCHANGED nd
       ELSE NSet(p, NReturn(p, "expand", 0)) /\ nd' = drop(nd)
    /\ UNCHANGED nh

XpAct(p) ==
    /\ np[p].pc = "xpact"
    /\ nd' = [nd EXCEPT !.actions = NodeBlock]
    /\ NSet(p, [np[p] EXCEPT !.pc = "xpnum"])
    /\ UNCHANGED nh

XpNum(p) ==
    /\ np[p].pc = "xpnum"
    /\ nd' = [nd EXCEPT !.nact = 2]
    /\ NSet(p, [np[p] EXCEPT !.pc = "xpdrop"])
    /\ UNCHANGED nh

XpDrop(p) ==
    /\ np[p].pc = "xpdrop"
    /\ nd' = drop(nd)
    /\ NSet(p, NReturn(p, "expand", 1))
    /\ UNCHANGED nh

\* Node::clear, by the thread that reserved the slot again: no other method
\* is running on it
NClear(p) ==
    /\ NMayStart(p)
    /\ \A o \in NodeProcs : np[o].pc = "idle"
    /\ nh.clears < MaxClears
    /\ NSet(p, NStart(p, "calock"))
    /\ UNCHANGED <<nd, nh>>

\* clear_actions: self.actions.write()
CaLock(p) ==
    /\ np[p].pc = "calock"
    /\ CanWrite(nd)
    /\ nd' = write(nd)
    /\ NSet(p, [np[p] EXCEPT !.pc = "castore"])
    /\ UNCHANGED nh

\* .store(NodePtr::NULL)
CaStore(p) ==
    /\ np[p].pc = "castore"
    /\ nd' = [nd EXCEPT !.actions = NULL]
    /\ NSet(p, [np[p] EXCEPT !.pc = "cadrop"])
    /\ UNCHANGED nh

\* the guard is a temporary: it drops at the end of the statement
CaDrop(p) ==
    /\ np[p].pc = "cadrop"
    /\ nd' = drop(nd)
    /\ NSet(p, [np[p] EXCEPT !.pc = "canum"])
    /\ UNCHANGED nh

\* num_actions.store(0)
CaNum(p) ==
    /\ np[p].pc = "canum"
    /\ nd' = [nd EXCEPT !.nact = 0]
    /\ NSet(p, [np[p] EXCEPT !.pc = "clstate"])
    /\ UNCHANGED nh

ClState(p) ==
    /\ np[p].pc = "clstate"
    /\ nd' = [nd EXCEPT !.state = Ongoing]
    /\ NSet(p, [np[p] EXCEPT !.pc = "clgini"])
    /\ UNCHANGED nh

ClGini(p) ==
    /\ np[p].pc = "clgini"
    /\ nd' = [nd EXCEPT !.gini = 0]
    /\ NSet(p, [np[p] EXCEPT !.pc = "clvis"])
    /\ UNCHANGED nh

ClVis(p) ==
    /\ np[p].pc = "clvis"
    /\ nd' = [nd EXCEPT !.visits = 0]
    /\ nh' = [nh EXCEPT !.dropped = nd.visits]
    /\ NSet(p, [np[p] EXCEPT !.pc = "clsum"])

ClSum(p) ==
    /\ np[p].pc = "clsum"
    /\ nd' = [nd EXCEPT !.sum_q = 0]
    /\ NSet(p, [np[p] EXCEPT !.pc = "clsq"])
    /\ UNCHANGED nh

ClSq(p) ==
    /\ np[p].pc = "clsq"
    /\ nd' = [nd EXCEPT !.sum_sq_q = <<0, 0>>]
    /\ NSet(p, [np[p] EXCEPT !.pc = "clthr"])
    /\ UNCHANGED nh

ClThr(p) ==
    /\ np[p].pc = "clthr"
    /\ nd' = [nd EXCEPT !.threads = 0]
    /\ nh' = [nh EXCEPT !.clears = @ + 1, !.updates = 0]
    /\ NSet(p, NReturn(p, "clear", 0))

NStep(p) ==
    \/ NUpdate(p) \/ UVis(p) \/ USum(p) \/ USq(p)
    \/ NQ(p) \/ QVis(p) \/ QSum(p)
    \/ NExpand(p) \/ XpChk(p) \/ XpAct(p) \/ XpNum(p) \/ XpDrop(p)
    \/ NClear(p) \/ CaLock(p) \/ CaStore(p) \/ CaDrop(p) \/ CaNum(p)
    \/ ClState(p) \/ ClGini(p) \/ ClVis(p) \/ ClSum(p) \/ ClSq(p)
    \/ ClThr(p)

NextNode == \E p \in NodeProcs : NStep(p)

-----------------------------------------------------------------------------
(* One TreeHalf under concurrent callers of reserve_nodes_thread           *)
(* (tree/half.rs), each with its own thread id.  The fetch-add on `used'   *)
(* and the check that follows it are separate steps.  clear() runs while   *)
(* no reservation is in progress.                                          *)

HalfThreads == 0..(NWorkers - 1)

\* nodes.len() of the half
HalfLen == 2 * CACHE_SIZE + CACHE_SIZE \div 2

\* The sizes asked for
HalfNums == {1, CACHE_SIZE \div 2 + 1, CACHE_SIZE + 1}

\* late is history: the call began after a call had returned None
HIdle == [pc |-> "idle", num |-> 0, block |-> 0, start |-> 0, ret |-> NULL,
          failed |-> FALSE, ops |-> 0, late |-> FALSE]

\* grants and failed are history: the ranges <<thread, idx, num>> that
\* successful calls returned since the last clear, in the order of their
\* return, and whether a call has returned None since then
InitHalf ==
    /\ th = [used |-> 0, next |-> NewHalf.next, end |-> NewHalf.end,
             grants |-> <<>>, failed |-> FALSE]
    /\ hq = [t \in HalfThreads |-> HIdle]

HSet(t, r) ==
    /\ hq' = [hq EXCEPT ![t] = r]
    /\ UNCHANGED exHalf

HClearing == \E t \in HalfThreads : hq[t].pc \in {"hcused", "hcnext"}

HMayStart(t) ==
    /\ hq[t].pc = "idle"
    /\ hq[t].ops < MaxHalfOps
    /\ ~HClearing

\* reserve_nodes_thread(num, thread): the thread's own cursors; a request
\* that fits its block is served from it
HReserve(t) ==
    \E num \in HalfNums :
        /\ HMayStart(t)
        /\ IF th.next[t] + num > th.end[t]
           THEN /\ HSet(t, [HIdle EXCEPT !.pc = "hadd", !.num = num,
                                         !.block = Max(CACHE_SIZE, num),
                                         !.ops = hq[t].ops + 1,
                                         !.late = th.failed])
                /\ UNCHANGED th
           ELSE /\ th' = [th EXCEPT !.next[t] = @ + num,
                                    !.grants = Append(@, <<t, th.next[t], num>>)]
                /\ HSet(t, [HIdle EXCEPT !.ret = PtrNew(0, th.next[t]),
                                         !.ops = hq[t].ops + 1])

\* start = used.fetch_add(block)
HAdd(t) ==
    /\ hq[t].pc = "hadd"
    /\ th' = [th EXCEPT !.used = @ + hq[t].block]
    /\ HSet(t, [hq[t] EXCEPT !.pc = "hchk", !.start = th.used])

\* A failed reservation that gives its block back
used_given_back(used, block) == used - block

\* return None: `used' stays as the fetch-add left it
used_on_failure(used, block) == used

\* A check that lets every block through
OutOfNodesNever(start, block) == FALSE

\* line 76: if start + block > self.nodes.len()
OutOfNodes(start, block) == start + block > HalfLen

\* An is_full that is true at the exact end of the half only
is_full_exact(h) == h.used = HalfLen

\* TreeHalf::is_full: self.used() >= self.nodes.len()
is_full(h) == h.used >= HalfLen

\* if start + block > nodes.len() { return None }, else the thread's
\* cursors move to the new block
HChk(t) ==
    /\ hq[t].pc = "hchk"
    /\ IF OutOfNodes(hq[t].start, hq[t].block)
       THEN /\ th' = [th EXCEPT !.used = used_on_failure(@, hq[t].block),
                                !.failed = TRUE]
            /\ HSet(t, [HIdle EXCEPT !.failed = TRUE, !.ops = hq[t].ops])
       ELSE /\ th' = [th EXCEPT !.next[t] = hq[t].start + hq[t].num,
                                !.end[t] = hq[t].start + hq[t].block,
                                !.grants = Append(@, <<t, hq[t].start,
                                                       hq[t].num>>)]
            /\ HSet(t, [HIdle EXCEPT !.ret = PtrNew(0, hq[t].start),
                                     !.ops = hq[t].ops])

\* TreeHalf::clear, by the thread that swaps the halves
HClear(t) ==
    /\ HMayStart(t)
    /\ \A o \in HalfThreads : hq[o].pc = "idle"
    /\ HSet(t, [HIdle EXCEPT !.pc = "hcused", !.ops = hq[t].ops + 1])
    /\ UNCHANGED th

\* used.store(0)
HcUsed(t) ==
    /\ hq[t].pc = "hcused"
    /\ th' = [th EXCEPT !.used = 0, !.grants = <<>>, !.failed = FALSE]
    /\ HSet(t, [hq[t] EXCEPT !.pc = "hcnext"])

\* next and end of every thread store 0
HcNext(t) ==
    /\ hq[t].pc = "hcnext"
    /\ th' = [th EXCEPT !.next = [o \in HalfThreads |-> 0],
                        !.end = [o \in HalfThreads |-> 0]]
    /\ HSet(t, [HIdle EXCEPT !.ops = hq[t].ops])

HStep(t) ==
    \/ HReserve(t) \/ HAdd(t) \/ HChk(t)
    \/ HClear(t) \/ HcUsed(t) \/ HcNext(t)

NextHalf == \E t \in HalfThreads : HStep(t)

-----------------------------------------------------------------------------
(* The fixed-point fields of a Node as functions of their inputs           *)
(* (tree/node.rs): the 16-bit prior of set_policy / policy, and the mean   *)
(* of update / q.  A distribution is given by integer weights: the prior   *)
(* of child i is weight i over the total, as apply_root_policy divides.    *)

U16MAX == 2 ^ 16 - 1

\* The weights of n children: the first one outweighs the others by `extra'
Weights(n, extra) == [i \in 1..n |-> IF i = 1 THEN 1 + extra ELSE 1]

\* The sum of s[lo..hi], by halves
RECURSIVE SumRange(_, _, _)
SumRange(s, lo, hi) ==
    IF lo > hi THEN 0
    ELSE IF lo = hi THEN s[lo]
    ELSE LET mid == (lo + hi) \div 2
         IN  SumRange(s, lo, mid) + SumRange(s, mid + 1, hi)

SumSeq(s) == SumRange(s, 1, Len(s))

\* set_policy(num / den): (policy * f32::from(u16::MAX)) as u16, truncating
set_policy(num, den) == (num * U16MAX) \div den

\* apply_root_policy lines 140-148: p /= total; set_policy(p), per child
stored_policies(w) ==
    LET total == SumSeq(w)
    IN  [i \in DOMAIN w |-> set_policy(w[i], total)]

InitPolicy ==
    \E n \in 1..MaxActions : \E extra \in 0..MaxExtra :
        pw = [weights |-> Weights(n, extra), stored |-> <<>>, done |-> FALSE]

ParkPolicy == pw = [weights |-> <<1>>, stored |-> <<>>, done |-> FALSE]

ApplyPolicy ==
    /\ ~pw.done
    /\ pw' = [pw EXCEPT !.stored = stored_policies(pw.weights), !.done = TRUE]
    /\ UNCHANGED <<exNum, qr>>

NextPolicy == ApplyPolicy

\* An f64 number of units 1 / QUANT as f32: 24 significant bits, ties to even
F32(k) ==
    IF k < 2 ^ 24 THEN k
    ELSE LET s == CHOOSE e \in 1..7 :
                     k \div 2 ^ e < 2 ^ 24 /\ k \div 2 ^ (e - 1) >= 2 ^ 24
             m == 2 ^ s
             lo == k % m
             base == k - lo
         IN  IF 2 * lo > m \/ (2 * lo = m /\ (base \div m) % 2 = 1)
             THEN base + m ELSE base

\* Node::q64, in units of 1 / QUANT
q64(n) == IF n.visits = 0 THEN 0 ELSE n.sum_q \div n.visits

\* Node::q
node_q(n) == F32(q64(n))

\* The values of Q handed to update: around 0, 1/2 and 1
QInputs == {b + d : b \in {0, UNIT \div 2, UNIT - QSpan}, d \in 0..QSpan}

InitQuant ==
    \E x \in QInputs : qr = [Q |-> x, node |-> NewNode, got |-> NONE,
                             done |-> FALSE]

ParkQuant == qr = [Q |-> 0, node |-> NewNode, got |-> NONE, done |-> FALSE]

\* update(Q) on the cleared node, then q()
StoreAndRead ==
    /\ ~qr.done
    /\ LET n == update(qr.node, qr.Q)
       IN  qr' = [qr EXCEPT !.node = n, !.got = node_q(n), !.done = TRUE]
    /\ UNCHANGED <<exNum, pw>>

NextQuant == StoreAndRead

-----------------------------------------------------------------------------
(* The worker loop of the Searcher and its stop flag.  An iteration is a   *)
(* descent of IterLen steps; it ends with a value, or with the allocation  *)
(* failure that makes the worker wait for the half-swap of the main        *)
(* worker.  The controller may set the flag at any time.                   *)

Main == 1

SIdle == [pc |-> "loop", steps |-> 0, after |-> 0]

InitStop ==
    /\ stop = FALSE
    /\ flip = FALSE
    /\ sw = [w \in Workers |-> SIdle]

SSet(w, r) ==
    /\ sw' = [sw EXCEPT ![w] = r]
    /\ UNCHANGED exStop

\* A stop flag that only the main worker polls
ObservesStopMainOnly(w) == w = Main /\ stop

\* while !stop: the flag as worker w loads it at an iteration boundary
ObservesStop(w) == stop

\* The head of the loop: leave when the flag is set; else the main worker
\* goes through its limits, the others start an iteration
SLoop(w) ==
    /\ sw[w].pc = "loop"
    /\ SSet(w, [sw[w] EXCEPT !.pc = IF ObservesStop(w) THEN "joined"
                                   ELSE IF w = Main THEN "limits"
                                   ELSE "iter",
                             !.steps = 0])
    /\ UNCHANGED <<stop, flip>>

\* The main worker: a time or node limit is hit (stop <- true; break), or a
\* pending half-swap is performed, or the iteration starts
SLimits(w) ==
    /\ sw[w].pc = "limits"
    /\ \/ /\ stop' = TRUE
          /\ SSet(w, [sw[w] EXCEPT !.pc = "joined"])
          /\ UNCHANGED flip
       \/ /\ flip
          /\ flip' = FALSE
          /\ SSet(w, [sw[w] EXCEPT !.pc = "iter"])
          /\ UNCHANGED stop
       \/ /\ ~flip
          /\ SSet(w, [sw[w] EXCEPT !.pc = "iter"])
          /\ UNCHANGED <<stop, flip>>

\* One step of the descent of perform_one
SDescend(w) ==
    /\ sw[w].pc = "iter"
    /\ sw[w].steps < IterLen
    /\ SSet(w, [sw[w] EXCEPT !.steps = @ + 1])
    /\ UNCHANGED <<stop, flip>>

\* perform_one returns a value: stats.add_iter, back to the head of the loop
SIterDone(w) ==
    /\ sw[w].pc = "iter"
    /\ sw[w].steps = IterLen
    /\ SSet(w, [sw[w] EXCEPT !.pc = "loop",
                             !.after = IF stop /\ @ < 2 THEN @ + 1 ELSE @])
    /\ UNCHANGED <<stop, flip>>

\* perform_one returns the allocation failure: signal main, wait
SIterFull(w) ==
    /\ sw[w].pc = "iter"
    /\ sw[w].steps = IterLen
    /\ flip' = TRUE
    /\ SSet(w, [sw[w] EXCEPT !.pc = IF w = Main THEN "loop" ELSE "wait"])
    /\ UNCHANGED stop

\* The wait ends when the halves are swapped, or when the flag is set; the
\* worker retries from the head of the loop
SWait(w) ==
    /\ sw[w].pc = "wait"
    /\ ~flip \/ stop
    /\ SSet(w, [sw[w] EXCEPT !.pc = "loop"])
    /\ UNCHANGED <<stop, flip>>

SStep(w) ==
    \/ SLoop(w) \/ SLimits(w) \/ SDescend(w) \/ SIterDone(w) \/ SIterFull(w)
    \/ SWait(w)

\* The controller's stop command
SetStop ==
    /\ ~stop
    /\ stop' = TRUE
    /\ UNCHANGED <<exStop, flip, sw>>

NextStop == SetStop \/ \E w \in Workers : SStep(w)

\* The workers are threads of the operating system: each one that can take
\* a step eventually does
FairStop == \A w \in Workers : WF_vars(SStep(w))

-----------------------------------------------------------------------------
(* pick_action (mcts/iteration.rs) over the children of one node, as a     *)
(* function of what it reads from them.  Values are in units of 1 / ONE.   *)
(* Tree::get_best_child_by_key is not part of the sources at hand: it is   *)
(* the reduction the specification describes (the maximal key, the lowest  *)
(* index among equals).                                                    *)

ONE == 840

\* params.virtual_loss_weight(), in halves (2.5)
VLW2 == 5

\* SearchHelpers::get_fpu: 1.0 - node.q()
get_fpu(parent_q) == ONE - parent_q

\* SearchHelpers::get_action_value
get_action_value(child, fpu) == IF child.visits = 0 THEN fpu ELSE child.q

\* The closure of pick_action: the action value, scaled down by the virtual
\* loss when other threads are below the child, plus the exploration term
child_key(child, fpu, expl) ==
    LET q0 == get_action_value(child, fpu)
        q1 == IF child.threads > 0
              THEN (2 * q0 * child.visits)
                     \div (2 * child.visits + 2 + VLW2 * (child.threads - 1))
              ELSE q0
        u  == (expl * child.policy) \div (1 + child.visits)
    IN  q1 + u

\* A later key that only equals the best one replaces it
BeatsOrTies(score, best) == score >= best

\* The comparison of the reduction: a key replaces the best one so far when
\* it is larger
Beats(score, best) == score > best

\* The reduction over keys[from..]: the index (from 0) of the best key
RECURSIVE best_from(_, _, _)
best_from(keys, from, best) ==
    IF from > Len(keys) THEN best - 1
    ELSE best_from(keys, from + 1,
                   IF Beats(keys[from], keys[best]) THEN from ELSE best)

get_best_child_by_key(keys) == best_from(keys, 2, 1)

Keys(kids, parent_q, expl) ==
    [i \in DOMAIN kids |-> child_key(kids[i], get_fpu(parent_q), expl)]

\* lines 128-153
pick_action(kids, parent_q, expl) ==
    get_best_child_by_key(Keys(kids, parent_q, expl))

\* What pick_action reads of a child: an unvisited child has q() = 0
Kid ==
    {c \in [visits : {0, 2}, q : {0, ONE \div 2, ONE}, threads : 0..2,
            policy : {ONE \div 4, ONE \div 2}] :
        c.visits = 0 => c.q = 0}

KidSeqs == UNION {[1..n -> Kid] : n \in 1..MaxKids}

InitPick ==
    \E kids \in KidSeqs : \E parent_q \in {0, ONE \div 2} :
        pk = [kids |-> kids, parent_q |-> parent_q, expl |-> 2,
              done |-> FALSE, action |-> 0]

PickAction ==
    /\ ~pk.done
    /\ pk' = [pk EXCEPT !.done = TRUE,
                        !.action = pick_action(pk.kids, pk.parent_q, pk.expl)]
    /\ UNCHANGED exPick

NextPick == PickAction

-----------------------------------------------------------------------------
(* MctsParams (mcts/params.rs).  A floating-point parameter is held in     *)
(* thousandths, the scale of the integers its set takes; an integer        *)
(* parameter is held as it is.                                             *)

MaxI32 == 2147483647

MinI32 == (0 - MaxI32) - 1

\* make_mcts_params!, lines 137, 146 and 167: three of its parameters
default_params ==
    [root_cpuct   |-> [kind |-> "f32", val |-> 405, min |-> 100, max |-> 5000],
     knight_value |-> [kind |-> "i32", val |-> 438, min |-> 250, max |-> 750],
     tm_max_time  |-> [kind |-> "f64", val |-> 903, min |-> 400, max |-> 990]]

ParamNames == DOMAIN default_params

\* A clamp that has lost its upper bound
clamp_from_below(v, lo, hi) == IF v < lo THEN lo ELSE v

\* i32::clamp, f32::clamp, f64::clamp
clamp(v, lo, hi) == IF v < lo THEN lo ELSE IF v > hi THEN hi ELSE v

\* Param<i32>::set stores the integer clamped; Param<f32>::set and
\* Param<f64>::set store val / 1000.0 clamped, which in thousandths is the
\* integer clamped to the bounds in thousandths
Param_set(p, v) == [p EXCEPT !.val = clamp(v, p.min, p.max)]

\* A set that falls back to the defaults when it does not know the name
set_or_default(params, name, v) ==
    IF name \in DOMAIN params
    THEN [params EXCEPT ![name] = Param_set(@, v)]
    ELSE default_params

\* MctsParams::set, lines 118-123
MctsParams_set(params, name, v) ==
    IF name \in DOMAIN params
    THEN [params EXCEPT ![name] = Param_set(@, v)]
    ELSE params

\* The names and integers a controller sends
OptionNames == ParamNames \cup {"no_such_option"}

OptionValues ==
    {MinI32, 0 - 1, 0, 99, 300, 500, 751, 1000, 5001, 500000, MaxI32}

\* MctsParams::default
InitParams == mp = [val |-> default_params, before |-> default_params,
                    last |-> <<>>]

SetParam ==
    /\ \E name \in OptionNames : \E v \in OptionValues :
          mp' = [val    |-> MctsParams_set(mp.val, name, v),
                 before |-> mp.val,
                 last   |-> <<name, v>>]
    /\ UNCHANGED exParam

NextParam == SetParam

-----------------------------------------------------------------------------
(* The Syzygy handle (tablebases.rs): SYZYGY is an optional tablebase      *)
(* behind a read-write lock.  A SyzygyPath is a list of components; the    *)
(* file system has a directory with tables ("tb"), one with a              *)
(* subdirectory ("deep"), a regular file ("file"), a name that does not    *)
(* exist ("none") and a directory that cannot be read ("bad").            *)

Components == {"", "tb", "deep", "file", "none", "bad"}

\* The values of the option: absent, or up to MaxDirs components
Absent == [present |-> FALSE, comps |-> <<>>]

SyzygyPaths ==
    {Absent} \cup
    {[present |-> TRUE, comps |-> c] :
        c \in UNION {[1..n -> Components] : n \in 0..MaxDirs}}

Disabled == [some |-> FALSE, dirs |-> <<>>]

\* directories_including_subdirectories, lines 74-101: the directories
\* below a root, or the error of fs::metadata or fs::read_dir
directories_including_subdirectories(dir) ==
    IF dir = "none" \/ dir = "bad" THEN [ok |-> FALSE, dirs |-> <<>>]
    ELSE IF dir = "file" THEN [ok |-> TRUE, dirs |-> <<>>]
    ELSE IF dir = "deep" THEN [ok |-> TRUE, dirs |-> <<"deep", "deep/sub">>]
    ELSE [ok |-> TRUE, dirs |-> <<dir>>]

\* lines 51-64: the loop over env::split_paths, from component i on, with
\* the directories added to the new tablebase so far
RECURSIVE add_paths(_, _, _)
add_paths(path, i, dirs) ==
    IF i > Len(path) THEN [ok |-> TRUE, dirs |-> dirs]
    ELSE IF path[i] = "" THEN add_paths(path, i + 1, dirs)
    ELSE LET found == directories_including_subdirectories(path[i])
         IN  IF ~found.ok THEN found
             ELSE add_paths(path, i + 1, dirs \o found.dirs)

\* A configuration that drops the handle before it reads the path
configure_clearing_first(handle, poisoned, path) ==
    IF poisoned THEN [ok |-> FALSE, handle |-> handle]
    ELSE IF ~path.present \/ path.comps = <<>>
    THEN [ok |-> TRUE, handle |-> Disabled]
    ELSE LET added == add_paths(path.comps, 1, <<>>)
         IN  IF ~added.ok \/ added.dirs = <<>>
             THEN [ok |-> FALSE, handle |-> Disabled]
             ELSE [ok |-> TRUE,
                   handle |-> [some |-> TRUE, dirs |-> added.dirs]]

\* configure_syzygy, lines 37-72: the result and the handle it leaves
configure_syzygy(handle, poisoned, path) ==
    IF poisoned THEN [ok |-> FALSE, handle |-> handle]
    ELSE IF ~path.present \/ path.comps = <<>>
    THEN [ok |-> TRUE, handle |-> Disabled]
    ELSE LET added == add_paths(path.comps, 1, <<>>)
         IN  IF ~added.ok \/ added.dirs = <<>>
             THEN [ok |-> FALSE, handle |-> handle]
             ELSE [ok |-> TRUE,
                   handle |-> [some |-> TRUE, dirs |-> added.dirs]]

\* Dtz::signum
signum(d) == IF d > 0 THEN 1 ELSE IF d < 0 THEN 0 - 1 ELSE 0

\* Iterator::min_by_key over the indices in order: the first least one
RECURSIVE min_by_key(_, _, _)
min_by_key(idx, dtz, best) ==
    IF idx = <<>> THEN best
    ELSE min_by_key(Tail(idx), dtz,
                    IF best = 0 \/ dtz[Head(idx)] < dtz[best]
                    THEN Head(idx) ELSE best)

\* Iterator::max_by_key over the indices in order: the last greatest one
RECURSIVE max_by_key(_, _, _)
max_by_key(idx, dtz, best) ==
    IF idx = <<>> THEN best
    ELSE max_by_key(Tail(idx), dtz,
                    IF best = 0 \/ dtz[Head(idx)] >= dtz[best]
                    THEN Head(idx) ELSE best)

\* The indices i of dtz, in order, with keep[i]
RECURSIVE Filter(_, _, _)
Filter(dtz, i, keep) ==
    IF i > Len(dtz) THEN <<>>
    ELSE (IF keep[i] THEN <<i>> ELSE <<>>) \o Filter(dtz, i + 1, keep)

\* A position as the probe sees it: its piece count, its DTZ and, per legal
\* move, our_dtz = -dtz of the position after it; ProbeErr where the
\* tablebase has no answer
ProbeErr == 0 - 99

Probed(m) == m # ProbeErr

Matching(root_dtz, moves) ==
    Filter(moves, 1,
           [i \in DOMAIN moves |->
               Probed(moves[i]) /\ signum(moves[i]) = signum(root_dtz)])

Fallback(root_dtz, moves) ==
    Filter(moves, 1,
           [i \in DOMAIN moves |->
               Probed(moves[i]) /\ signum(moves[i]) # signum(root_dtz)])

\* tablebase_guard()? and guard.as_ref()?, lines 145-146
has_tables(handle) == handle.some

\* probe_root_dtz_best_move, lines 144-203: the index of the move returned,
\* 0 for None
probe_root_dtz_best_move(handle, p) ==
    IF ~has_tables(handle) THEN 0
    ELSE IF p.pieces > 7 THEN 0
    ELSE IF ~Probed(p.root) THEN 0
    ELSE LET matching    == Matching(p.root, p.moves)
             select_from == IF matching # <<>> THEN matching
                            ELSE Fallback(p.root, p.moves)
         IN  IF signum(p.root) > 0
             THEN min_by_key(select_from, p.moves, 0)
             ELSE max_by_key(select_from, p.moves, 0)

DtzVals == {0 - 3, 0 - 1, 0, 1, 3}

Positions ==
    [pieces : {7, 8}, root : {0 - 2, 0, 2, ProbeErr},
     moves : UNION {[1..n -> DtzVals \cup {ProbeErr}] : n \in 0..MaxMoves}]

InitSyzygy == tb = [handle |-> Disabled, last |-> <<>>, probe |-> <<>>]

\* The controller sets the option SyzygyPath
Configure ==
    /\ \E path \in SyzygyPaths : \E poisoned \in BOOLEAN :
          LET r == configure_syzygy(tb.handle, poisoned, path)
          IN  tb' = [handle |-> r.handle,
                     last   |-> [path |-> path, ok |-> r.ok,
                                 before |-> tb.handle],
                     probe  |-> <<>>]
    /\ UNCHANGED exTb

\* The search probes the root position, once per configuration
ProbeRoot ==
    /\ tb.probe = <<>>
    /\ \E p \in Positions :
          tb' = [tb EXCEPT
                   !.last = <<>>,
                   !.probe = [p |-> p,
                              got |-> probe_root_dtz_best_move(tb.handle, p)]]
    /\ UNCHANGED exTb

NextSyzygy == Configure \/ ProbeRoot

-----------------------------------------------------------------------------
(* NodePtr::new, half, idx and Add (tree/node.rs) as functions of their    *)
(* inputs, in the two builds: with debug assertions NodePtr::new keeps     *)
(* DEFAULT_BITS bits of the index.                                         *)

DEFAULT_BITS == 12

\* lines 28-40: Self((u32::from(half) << 31) | (idx & mask))
PtrNewDebug(h, idx) == PtrNew(h, idx % (2 ^ DEFAULT_BITS))

Builds == {"release", "debug"}

\* Indices around the ends of the index range and of the debug mask
PtrIdxs == {0, 1, 2 ^ DEFAULT_BITS - 1, 2 ^ DEFAULT_BITS, IdxMax - 1, IdxMax}

\* Offsets: the index of an action, or the size of a block
PtrOffsets == {0, 1, MaxActions - 1, MaxActions}

InitPtr ==
    \E b \in Builds : \E h \in {0, 1} : \E i \in PtrIdxs : \E k \in PtrOffsets :
        pt = [build |-> b, half |-> h, idx |-> i, k |-> k, pc |-> "new",
              ptr |-> NULL, sum |-> NULL]

\* NodePtr::new(half, idx)
MakePtr ==
    /\ pt.pc = "new"
    /\ pt' = [pt EXCEPT
                !.pc = "add",
                !.ptr = IF pt.build = "debug" THEN PtrNewDebug(pt.half, pt.idx)
                        ELSE PtrNew(pt.half, pt.idx)]
    /\ UNCHANGED exPtr

\* ptr + k, for an offset that stays within the indices of a half
AddPtr ==
    /\ pt.pc = "add"
    /\ pt.k <= IdxMax - PtrIdx(pt.ptr)
    /\ pt' = [pt EXCEPT !.pc = "done", !.sum = PtrAdd(pt.ptr, pt.k)]
    /\ UNCHANGED exPtr

NextPtr == MakePtr \/ AddPtr

-----------------------------------------------------------------------------
(* The correction table (networks/corrhist.rs): one i16 per threat         *)
(* feature.  A board is the list of its features in the order in which     *)
(* threats::map_features visits them; every board has its two kings, so    *)
(* the list is never empty.                                                *)

MAX_CORRECTION == 400

DECAY == 32

Features == 1..MaxFeatures

Boards == {<<1>>, <<1, 2>>, <<2, 3>>}

\* The division of i32: the quotient is cut towards zero
TruncDiv(a, b) == IF a < 0 /\ a % b # 0 THEN (a \div b) + 1 ELSE a \div b

\* diff - cur overflows i32
Overflows(diff, cur) ==
    \/ cur > 0 /\ diff < MinI32 + cur
    \/ cur < 0 /\ diff > MaxI32 + cur

\* diff - cur in a release build: the difference modulo 2^32
wrapping_sub(diff, cur) ==
    IF cur > 0 /\ diff < MinI32 + cur
    THEN (((diff - MinI32) - cur) + MaxI32) + 1
    ELSE IF cur < 0 /\ diff > MaxI32 + cur
    THEN (((diff - MaxI32) - cur) + MinI32) - 1
    ELSE diff - cur

\* The moving average without its clamp
update_entry_unclamped(cur, diff) ==
    cur + TruncDiv(wrapping_sub(diff, cur), DECAY)

\* lines 27-31: the new value of one entry
update_entry(cur, diff) ==
    clamp(cur + TruncDiv(wrapping_sub(diff, cur), DECAY),
          0 - MAX_CORRECTION, MAX_CORRECTION)

\* update, lines 24-33, over the features feats[i..]; with debug
\* assertions an overflowing subtraction panics and the update stops there
RECURSIVE corr_update(_, _, _, _, _)
corr_update(table, feats, i, diff, build) ==
    IF i > Len(feats) THEN table
    ELSE IF build = "debug" /\ Overflows(diff, table[feats[i]]) THEN table
    ELSE corr_update([table EXCEPT ![feats[i]] = update_entry(@, diff)],
                     feats, i + 1, diff, build)

\* correction, lines 14-20
RECURSIVE correction_from(_, _, _)
correction_from(table, feats, i) ==
    IF i > Len(feats) THEN 0
    ELSE table[feats[i]] + correction_from(table, feats, i + 1)

correction(table, board) == correction_from(table, board, 1)

Diffs == {MinI32, 0 - 100, 0 - DECAY, 1 - DECAY, 0, DECAY - 1, DECAY, 100,
          MaxI32}

\* static TABLE, line 10
InitCorr == ch = [table |-> [f \in Features |-> 0], log |-> <<>>]

CorrUpdate ==
    /\ Len(ch.log) < MaxUpdates
    /\ \E board \in Boards : \E diff \in Diffs : \E build \in Builds :
          ch' = [table |-> corr_update(ch.table, board, 1, diff, build),
                 log   |-> Append(ch.log, <<board, diff>>)]
    /\ UNCHANGED exCorr

NextCorr == CorrUpdate

-----------------------------------------------------------------------------
(* The amortised thresholds of SearchStats (mcts/search_stats.rs) under    *)
(* concurrent callers of the four should_ methods: the load and every      *)
(* compare_exchange of advance_threshold are steps.                        *)

\* lines 27-31 and 55-68: the first value and the step of each threshold
\* (they are equal)
ThresholdStep ==
    [next_main_time_check |-> 128, next_opt_time_check  |-> 4096,
     next_best_move_reset |-> 16384, next_uci_report    |-> 8192]

Thresholds == DOMAIN ThresholdStep

StatCallers == 1..NProcs

\* The iteration counts a caller passes for a threshold
IterCounts(name) ==
    {ThresholdStep[name] - 1, ThresholdStep[name], 2 * ThresholdStep[name]}

StatIdle == [pc |-> "idle", name |-> "next_main_time_check", iters |-> 0,
             current |-> 0, ret |-> FALSE, calls |-> 0]

\* SearchStats::new
InitStats ==
    /\ ts = [next |-> ThresholdStep, claims |-> <<>>]
    /\ tc = [c \in StatCallers |-> StatIdle]

\* should_check_main_time(iters) and the other three, lines 54-69
StatCall(c) ==
    /\ tc[c].pc = "idle"
    /\ tc[c].calls < MaxCalls
    /\ \E name \in Thresholds : \E n \in IterCounts(name) :
          tc' = [tc EXCEPT ![c] = [@ EXCEPT !.pc = "load", !.name = name,
                                            !.iters = n,
                                            !.calls = @ + 1]]
    /\ UNCHANGED <<exStat, ts>>

\* line 36: threshold.load
StatLoad(c) ==
    /\ tc[c].pc = "load"
    /\ tc' = [tc EXCEPT ![c] = [@ EXCEPT !.pc = "check",
                                        !.current = ts.next[tc[c].name]]]
    /\ UNCHANGED <<exStat, ts>>

\* lines 38-40: if iters < current { return false }
StatCheck(c) ==
    /\ tc[c].pc = "check"
    /\ tc' = [tc EXCEPT ![c] =
                IF tc[c].iters < tc[c].current
                THEN [@ EXCEPT !.pc = "idle", !.ret = FALSE]
                ELSE [@ EXCEPT !.pc = "cas"]]
    /\ UNCHANGED <<exStat, ts>>

\* An exchange that does not compare
exchange_blind(actual, current) == TRUE

\* compare_exchange succeeds when the threshold still has the value loaded
compare_exchange(actual, current) == actual = current

\* lines 42-50: the compare_exchange and its two outcomes
StatCas(c) ==
    /\ tc[c].pc = "cas"
    /\ LET name   == tc[c].name
           actual == ts.next[name]
       IN  IF compare_exchange(actual, tc[c].current)
           THEN /\ ts' = [next   |-> [ts.next EXCEPT ![name] =
                                        tc[c].current + ThresholdStep[name]],
                          claims |-> Append(ts.claims,
                                            [name |-> name, by |-> c,
                                             value |-> tc[c].current,
                                             iters |-> tc[c].iters])]
                /\ tc' = [tc EXCEPT ![c] = [@ EXCEPT !.pc = "idle",
                                                    !.ret = TRUE]]
           ELSE /\ tc' = [tc EXCEPT ![c] = [@ EXCEPT !.pc = "check",
                                                    !.current = actual]]
                /\ UNCHANGED ts
    /\ UNCHANGED exStat

\* The steps of advance_threshold, lines 35-52
StatLoop(c) == StatLoad(c) \/ StatCheck(c) \/ StatCas(c)

NextStats == \E c \in StatCallers : StatCall(c) \/ StatLoop(c)

\* A thread inside advance_threshold keeps running
FairStats == \A c \in StatCallers : WF_vars(StatLoop(c))

-----------------------------------------------------------------------------
(* InflightTable (tree/inflight.rs): one AtomicU64 per slot, 0 when the    *)
(* slot is free.  Every method is one atomic operation.  held is history:  *)
(* per caller, the hashes it has inserted and not removed since.           *)

FlSize == 2

FlProcs == 2

MaxFlOps == 3

FlThreads == 1..FlProcs

FlHashes == 0..(2 * FlSize - 1)

\* idx: (hash as usize) % self.table.len()
idx(hash) == hash % FlSize

InitInflight ==
    fl = [table |-> [i \in 0..(FlSize - 1) |-> 0],
          held |-> [t \in FlThreads |-> <<>>],
          ops |-> [t \in FlThreads |-> 0],
          last |-> <<>>]

\* compare_exchange(old, new) on a slot holding cur
compare_exchange_u64(cur, old, new) ==
    IF cur = old THEN [ok |-> TRUE, val |-> new] ELSE [ok |-> FALSE, val |-> cur]

RECURSIVE Without(_, _)
\* The sequence s less its first h
Without(s, h) ==
    IF s = <<>> THEN <<>>
    ELSE IF Head(s) = h THEN Tail(s) ELSE <<Head(s)>> \o Without(Tail(s), h)

Holds(t, h) == \E i \in 1..Len(fl.held[t]) : fl.held[t][i] = h

Stored(h) == \E t \in FlThreads : Holds(t, h)

\* try_insert(hash): compare_exchange(0, hash).is_ok()
try_insert(t) ==
    /\ fl.ops[t] < MaxFlOps
    /\ \E h \in FlHashes :
          LET r == compare_exchange_u64(fl.table[idx(h)], 0, h)
          IN  fl' = [table |-> [fl.table EXCEPT ![idx(h)] = r.val],
                     held |-> IF r.ok
                              THEN [fl.held EXCEPT ![t] = Append(@, h)]
                              ELSE fl.held,
                     ops |-> [fl.ops EXCEPT ![t] = @ + 1],
                     last |-> [op |-> "try_insert", t |-> t, h |-> h,
                               ret |-> r.ok, stored |-> Stored(h)]]
    /\ UNCHANGED exInflight

\* contains(hash): load == hash
contains(t) ==
    /\ fl.ops[t] < MaxFlOps
    /\ \E h \in FlHashes :
          fl' = [fl EXCEPT !.ops[t] = @ + 1,
                           !.last = [op |-> "contains", t |-> t, h |-> h,
                                     ret |-> fl.table[idx(h)] = h,
                                     stored |-> Stored(h)]]
    /\ UNCHANGED exInflight

\* remove(hash): compare_exchange(hash, 0), the result ignored.  A caller
\* removes a hash it holds, or a hash that nobody holds.
remove(t) ==
    /\ \E h \in FlHashes :
          /\ Holds(t, h) \/ (~Stored(h) /\ fl.ops[t] < MaxFlOps)
          /\ LET r == compare_exchange_u64(fl.table[idx(h)], h, 0)
             IN  fl' = [table |-> [fl.table EXCEPT ![idx(h)] = r.val],
                        held |-> [fl.held EXCEPT ![t] = Without(@, h)],
                        ops |-> [fl.ops EXCEPT ![t] =
                                    IF Holds(t, h) THEN @ ELSE @ + 1],
                        last |-> [op |-> "remove", t |-> t, h |-> h,
                                  ret |-> r.ok, stored |-> Stored(h)]]
    /\ UNCHANGED exInflight

NextInflight == \E t \in FlThreads : try_insert(t) \/ contains(t) \/ remove(t)

-----------------------------------------------------------------------------
(* RootBackprop (mcts/root_backprop.rs): record() updates the root itself  *)
(* until it has activation_visits visits, then adds to the accumulator of  *)
(* its thread and applies the accumulator to the root when it holds        *)
(* flush_threshold visits.  Every atomic operation is a step.  The root's  *)
(* sums are fetch-adds (Node::update; Node::apply_batch_stats likewise).   *)
(* hist is history: the record calls made and what they carried.           *)

RbProcs == 2

MaxRecords == 3

RbThreads == 0..(RbProcs - 1)

\* The values recorded, as utilities
RbVals == {UNIT \div 2 + 1, UNIT}

NoStats == [visits |-> 0, sum_q |-> 0, sum_sq_q |-> <<0, 0>>]

\* compute_flush_threshold(threads).max(1)
flush_threshold == Max(RbProcs, 1)

\* flush_threshold.saturating_mul(threads).max(flush_threshold)
activation_visits == Max(flush_threshold * RbProcs, flush_threshold)

\* new(): the accumulators empty, not activated; the root as the search
\* left it, with visits below, at or above the activation threshold
InitBackprop ==
    \E v \in {0, activation_visits - 1, activation_visits} :
        rb = [node |-> [NoStats EXCEPT !.visits = v],
              first |-> v,
              activated |-> FALSE,
              per_thread |-> [t \in RbThreads |-> NoStats],
              pc |-> [t \in RbThreads |-> "idle"],
              value |-> [t \in RbThreads |-> 0],
              add |-> [t \in RbThreads |-> NoStats],
              calls |-> [t \in RbThreads |-> 0],
              hist |-> NoStats,
              batches |-> 0,
              flushed |-> 0]

\* A reset that leaves the sums in place
reset_visits_only(accum) == [accum EXCEPT !.visits = 0]

\* ThreadAccum::reset
reset(accum) == NoStats

\* One visit with value u, as Node::update and record() count it
OneVisit(u) ==
    [visits |-> 1, sum_q |-> Quantise(u), sum_sq_q |-> Square(Quantise(u))]

AddStats(a, b) ==
    [visits |-> a.visits + b.visits, sum_q |-> a.sum_q + b.sum_q,
     sum_sq_q |-> AddLimbs(a.sum_sq_q, b.sum_sq_q)]

RbIdle == \A t \in RbThreads : rb.pc[t] = "idle"

\* record(thread_id, value) is called
Record(t) ==
    /\ rb.pc[t] = "idle"
    /\ rb.flushed = 0
    /\ rb.calls[t] < MaxRecords
    /\ \E u \in RbVals :
          rb' = [rb EXCEPT !.pc[t] = "activated", !.value[t] = u,
                           !.calls[t] = @ + 1,
                           !.hist = AddStats(@, OneVisit(u))]
    /\ UNCHANGED exBackprop

\* line 83: if !self.activated.load()
RecActivated(t) ==
    /\ rb.pc[t] = "activated"
    /\ rb' = [rb EXCEPT !.pc[t] = IF rb.activated THEN "accum" ELSE "visits"]
    /\ UNCHANGED exBackprop

\* lines 84-87: below the activation threshold the root is updated directly
RecVisits(t) ==
    /\ rb.pc[t] = "visits"
    /\ rb' = IF rb.node.visits < activation_visits
             THEN [rb EXCEPT !.pc[t] = "add_v",
                             !.add[t] = OneVisit(rb.value[t])]
             ELSE [rb EXCEPT !.pc[t] = "store"]
    /\ UNCHANGED exBackprop

\* line 89: self.activated.store(true)
RecStore(t) ==
    /\ rb.pc[t] = "store"
    /\ rb' = [rb EXCEPT !.activated = TRUE, !.pc[t] = "accum"]
    /\ UNCHANGED exBackprop

\* The test of line 100
FlushDue(accum) == accum.visits >= flush_threshold

\* lines 92-103: add to the thread's accumulator; at the threshold apply it
\* to the root and reset it
RecAccum(t) ==
    /\ rb.pc[t] = "accum"
    /\ LET accum == AddStats(rb.per_thread[t], OneVisit(rb.value[t]))
       IN  rb' = IF FlushDue(accum)
                 THEN [rb EXCEPT !.per_thread[t] = reset(accum),
                                 !.add[t] = accum, !.pc[t] = "add_v",
                                 !.batches = Max(@, 1)]
                 ELSE [rb EXCEPT !.per_thread[t] = accum, !.pc[t] = "idle"]
    /\ UNCHANGED exBackprop

\* visits.fetch_add
AddVisits(t) ==
    /\ rb.pc[t] = "add_v"
    /\ rb' = [rb EXCEPT !.node.visits = @ + rb.add[t].visits,
                        !.pc[t] = "add_q"]
    /\ UNCHANGED exBackprop

\* sum_q.fetch_add
AddSumQ(t) ==
    /\ rb.pc[t] = "add_q"
    /\ rb' = [rb EXCEPT !.node.sum_q = @ + rb.add[t].sum_q,
                        !.pc[t] = "add_s"]
    /\ UNCHANGED exBackprop

\* sum_sq_q.fetch_add, and the call returns
AddSumSq(t) ==
    /\ rb.pc[t] = "add_s"
    /\ rb' = [rb EXCEPT !.node.sum_sq_q = AddLimbs(@, rb.add[t].sum_sq_q),
                        !.pc[t] = "idle", !.add[t] = NoStats]
    /\ UNCHANGED exBackprop

RECURSIVE flush(_, _)
\* flush(thread_id) for the thread ids below n, as flush_all runs them
flush(st, n) ==
    IF n = 0 THEN st
    ELSE LET t == n - 1
             pre == flush(st, t)
         IN  IF pre.per_thread[t].visits = 0 THEN pre
             ELSE [pre EXCEPT !.node = AddStats(@, pre.per_thread[t]),
                              !.per_thread[t] = reset(@)]

\* flush_all(), once the workers have finished
FlushAll ==
    /\ RbIdle
    /\ rb.flushed = 0
    /\ \E t \in RbThreads : rb.calls[t] > 0
    /\ rb' = [flush(rb, RbProcs) EXCEPT
                  !.flushed = IF \E t \in RbThreads : rb.per_thread[t].visits > 0
                              THEN 2 ELSE 1]
    /\ UNCHANGED exBackprop

RbStep(t) ==
    \/ Record(t)
    \/ RecActivated(t)
    \/ RecVisits(t)
    \/ RecStore(t)
    \/ RecAccum(t)
    \/ AddVisits(t)
    \/ AddSumQ(t)
    \/ AddSumSq(t)

NextBackprop == FlushAll \/ \E t \in RbThreads : RbStep(t)

-----------------------------------------------------------------------------
(* ValueHistory (tree/value_history.rs): a table of AtomicI16, of which one *)
(* cell is modelled, the cell of the position every caller passes.  update *)
(* is a compare-exchange loop, every load and exchange a step.  applied    *)
(* and retried are history: the successful and the failed exchanges of the *)
(* call in progress.                                                       *)

VhProcs == 2

MaxVhUpdates == 2

VhThreads == 1..VhProcs

I16_MAX == 32767

I16_MIN == (0 - I16_MAX) - 1

MAX_VISITS == 8192

MIN_DIV == 1

MAX_DIV == 16

\* cp_from_score(predicted) and cp_from_score(actual), in centipawns
CpScores == {0 - 5000, 0, 16}

\* visits, a u16, before visits.max(1)
VhVisits == {0, MAX_VISITS, 65535}

\* The cell at the start: new() and clear() store 0; the other values are
\* what repeated updates of one sign lead to
VhCells == {0, 1023, 0 - 1023}

\* A bonus with no gravity term
scale_bonus_no_gravity(score, bonus) == clamp(bonus, I16_MIN, I16_MAX)

\* scale_bonus (lines 83-88), i32 arithmetic, / truncating
scale_bonus(score, bonus) ==
    LET b == clamp(bonus, I16_MIN, I16_MAX)
        reduction == TruncDiv(score * (IF b < 0 THEN 0 - b ELSE b), 1024)
    IN  clamp(b - reduction, I16_MIN, I16_MAX)

\* i16::saturating_add
saturating_add(a, b) == clamp(a + b, I16_MIN, I16_MAX)

\* lines 52-56: the divisor from the visits, the bonus from the difference
bonus_of(predicted_cp, actual_cp, visits) ==
    LET v == Max(visits, 1)
        divisor == MIN_DIV + ((MAX_DIV - MIN_DIV)
                     * (IF v < MAX_VISITS THEN v ELSE MAX_VISITS))
                     \div MAX_VISITS
    IN  clamp(TruncDiv(predicted_cp - actual_cp, divisor), 0 - 256, 256)

InitHistory ==
    \E c \in VhCells :
        vh = [cell |-> c,
              updates |-> 0,
              pc |-> [t \in VhThreads |-> "idle"],
              bonus |-> [t \in VhThreads |-> 0],
              current |-> [t \in VhThreads |-> 0],
              applied |-> [t \in VhThreads |-> 0],
              retried |-> [t \in VhThreads |-> FALSE],
              calls |-> [t \in VhThreads |-> 0],
              last |-> <<>>]

\* update(pos, predicted, actual, visits) up to the load of line 60
VhUpdate(t) ==
    /\ vh.pc[t] = "idle"
    /\ vh.calls[t] < MaxVhUpdates
    /\ \E p \in CpScores, a \in CpScores, v \in VhVisits :
          vh' = [vh EXCEPT !.pc[t] = "loop", !.bonus[t] = bonus_of(p, a, v),
                           !.current[t] = vh.cell, !.applied[t] = 0,
                           !.retried[t] = FALSE,
                           !.calls[t] = @ + 1]
    /\ UNCHANGED exHistory

\* lines 62-70: one turn of the loop
VhExchange(t) ==
    /\ vh.pc[t] = "loop"
    /\ LET delta == scale_bonus(vh.current[t], vh.bonus[t])
           new == saturating_add(vh.current[t], delta)
       IN  vh' = IF vh.bonus[t] = 0
                 THEN [vh EXCEPT !.pc[t] = "idle"]
                 ELSE IF vh.cell = vh.current[t]
                 THEN [vh EXCEPT !.cell = new, !.pc[t] = "count",
                                 !.applied[t] = @ + 1]
                 ELSE [vh EXCEPT !.current[t] = vh.cell, !.retried[t] = TRUE]
    /\ UNCHANGED exHistory

\* lines 72-74: self.updates.fetch_add(1)
VhCount(t) ==
    /\ vh.pc[t] = "count"
    /\ vh' = [vh EXCEPT !.updates = @ + 1, !.pc[t] = "idle"]
    /\ UNCHANGED exHistory

\* correct_cp(pos, cp)
correct_cp(t) ==
    /\ vh.pc[t] = "idle"
    /\ vh.calls[t] < MaxVhUpdates
    /\ \E cp \in CpScores :
          vh' = [vh EXCEPT !.calls[t] = @ + 1,
                           !.last = <<cp, cp + TruncDiv(vh.cell, 16)>>]
    /\ UNCHANGED exHistory

NextHistory ==
    \E t \in VhThreads :
        VhUpdate(t) \/ VhExchange(t) \/ VhCount(t) \/ correct_cp(t)

-----------------------------------------------------------------------------
(* PolicyTable (tree/policy_hash.rs): one AtomicU64 per slot.  The word is *)
(* kept as its fields: bits 0-31 (a NodePtr's u32), bits 32-47 and bits    *)
(* 48-63.  A 64-bit hash is its high 32 bits, as <<high, low>> limbs of 16 *)
(* bits, and its low 32 bits.  push and get are one store and one load.    *)
(* pushed is history: the last push to each slot.                          *)

PlSize == 2

MaxPlOps == 3

PlHashes ==
    [key : {<<0, 0>>, <<0, 1>>, <<1, 0>>, <<1, 1>>, <<LIMB - 1, LIMB - 1>>},
     low : {0, 1}]

PlPtrs == {PtrNew(0, 1), PtrNew(1, 5), NULL}

PlTemps == {0, 1, LIMB - 1}

\* hash % (self.table.len() as u64)
PlIdx(hash) ==
    LET k == ((hash.key[1] % PlSize) * (LIMB % PlSize) + hash.key[2]) % PlSize
        m == ((LIMB % PlSize) * (LIMB % PlSize)) % PlSize
    IN  (k * m + hash.low) % PlSize

\* key: (hash >> 32) as u32
key(hash) == hash.key

\* From<&PolicyEntryInternal> for PolicyEntry: ptr = v as u32,
\* temp = (v >> 32) & 0xFFFF, hash = (v >> 32) as u32
from_word(v) == [ptr |-> v.lo, temp |-> v.b32, hash |-> <<v.b48, v.b32>>]

\* From<PolicyEntry> for u64: ptr | temp << 32 | hash << 48, where the
\* shift drops the high 16 bits of hash
into_word(e) == [lo |-> e.ptr, b32 |-> e.temp, b48 |-> e.hash[2]]

\* PolicyEntryInternal::default(), and the bytes new() writes
ZeroWord == [lo |-> PtrNew(0, 0), b32 |-> 0, b48 |-> 0]

InitPolicyTable ==
    pl = [table |-> [i \in 0..(PlSize - 1) |-> ZeroWord],
          pushed |-> [i \in 0..(PlSize - 1) |-> <<>>],
          got |-> <<>>,
          ops |-> 0]

\* push(hash, ptr, temp)
PlPush ==
    /\ pl.ops < MaxPlOps
    /\ \E hash \in PlHashes, ptr \in PlPtrs, temp \in PlTemps :
          LET entry == [ptr |-> ptr, temp |-> temp, hash |-> key(hash)]
          IN  pl' = [table |-> [pl.table EXCEPT ![PlIdx(hash)] = into_word(entry)],
                     pushed |-> [pl.pushed EXCEPT ![PlIdx(hash)] =
                                    [hash |-> hash, entry |-> entry]],
                     got |-> <<>>,
                     ops |-> pl.ops + 1]
    /\ UNCHANGED exPolicyTable

\* fetch(hash)
fetch(hash) == from_word(pl.table[PlIdx(hash)])

\* get(hash): Some(entry) when entry.hash == key(hash)
PlGet ==
    /\ pl.ops < MaxPlOps
    /\ \E hash \in PlHashes :
          LET entry == fetch(hash)
          IN  pl' = [pl EXCEPT !.ops = @ + 1,
                               !.got = [hash |-> hash,
                                        tag |-> IF entry.hash = key(hash)
                                                THEN "Some" ELSE "None",
                                        entry |-> entry]]
    /\ UNCHANGED exPolicyTable

NextPolicyTable == PlPush \/ PlGet

-----------------------------------------------------------------------------
(* The specifications.  Each runs one part of the program and leaves the   *)
(* variables of the other parts at their initial values.                   *)

ParkTree ==
    /\ half = 0
    /\ root = PtrNew(0, 0)
    /\ cap = CACHE_SIZE
    /\ game = "quiet"
    /\ nodes = (PtrNew(0, 0) :> NewNode)
    /\ alloc = [h \in {0, 1} |-> NewHalf]
    /\ stack = [w \in Workers |-> <<>>]
    /\ pos = [w \in Workers |-> <<>>]
    /\ res = [w \in Workers |-> 0]
    /\ iters = [w \in Workers |-> 0]
    /\ needSwap = FALSE
    /\ swaps = 0
    /\ blocks = [p \in {} |-> 0]
    /\ trail = [w \in Workers |-> <<>>]

ParkPick ==
    pk = [kids |-> <<>>, parent_q |-> 0, expl |-> 0, done |-> FALSE,
          action |-> 0]

ParkParams == mp = [val |-> <<>>, before |-> <<>>, last |-> <<>>]

ParkSyzygy == tb = [handle |-> Disabled, last |-> <<>>, probe |-> <<>>]

ParkPtr == pt = [pc |-> "done"]

ParkCorr == ch = [table |-> <<>>, log |-> <<>>]

ParkStats == ts = <<>> /\ tc = <<>>

ParkInflight == fl = <<>>

ParkBackprop == rb = <<>>

ParkHistory == vh = <<>>

ParkPolicyTable == pl = <<>>

ParkSide == ParkInflight /\ ParkBackprop /\ ParkHistory /\ ParkPolicyTable

ParkUnits ==
    /\ ParkPick /\ ParkParams /\ ParkSyzygy /\ ParkPtr /\ ParkCorr /\ ParkStats
    /\ ParkSide

Init == InitTree /\ InitTT /\ InitLock /\ InitNode /\ InitHalf /\ ParkPolicy /\ ParkQuant
            /\ InitStop /\ ParkUnits

Next == NextTree

Spec == Init /\ [][Next]_vars

\* Every worker thread keeps running
FairTree == \A w \in Workers : WF_vars(Worker(w))

\* The search on the smaller tree, where halves fill up
InitLive == Init /\ cap = CACHE_SIZE

SpecLive == InitLive /\ [][Next]_vars /\ FairTree

InitHash == ParkTree /\ InitTT /\ InitLock /\ InitNode /\ InitHalf /\ ParkPolicy /\ ParkQuant
            /\ InitStop /\ ParkUnits

SpecTT == InitHash /\ [][NextTT]_vars

SpecTTSeq == InitHash /\ [][NextTTSeq]_vars

InitHashAny ==
    /\ ParkTree /\ InitTTAny /\ InitLock /\ InitNode /\ InitHalf
    /\ ParkPolicy /\ ParkQuant /\ InitStop /\ ParkUnits

SpecTTAny == InitHashAny /\ [][NextTTAny]_vars

SpecLock == InitHash /\ [][NextLock]_vars

SpecNode == InitHash /\ [][NextNode]_vars

SpecHalf == InitHash /\ [][NextHalf]_vars

ParkedCore ==
    /\ ParkTree /\ InitTT /\ InitLock /\ InitNode /\ InitHalf /\ InitStop

Parked == ParkedCore /\ ParkUnits

InitPriors == Parked /\ InitPolicy /\ ParkQuant

SpecPolicy == InitPriors /\ [][NextPolicy]_vars

InitMean == Parked /\ ParkPolicy /\ InitQuant

SpecQuant == InitMean /\ [][NextQuant]_vars

SpecStop == InitHash /\ [][NextStop]_vars /\ FairStop

InitPicks ==
    /\ ParkedCore /\ ParkPolicy /\ ParkQuant
    /\ InitPick /\ ParkParams /\ ParkSyzygy /\ ParkPtr /\ ParkCorr /\ ParkStats /\ ParkSide

SpecPick == InitPicks /\ [][NextPick]_vars

InitOptions ==
    /\ ParkedCore /\ ParkPolicy /\ ParkQuant
    /\ ParkPick /\ InitParams /\ ParkSyzygy /\ ParkPtr /\ ParkCorr /\ ParkStats /\ ParkSide

SpecParam == InitOptions /\ [][NextParam]_vars

InitTables ==
    /\ ParkedCore /\ ParkPolicy /\ ParkQuant
    /\ ParkPick /\ ParkParams /\ InitSyzygy /\ ParkPtr /\ ParkCorr /\ ParkStats /\ ParkSide

SpecSyzygy == InitTables /\ [][NextSyzygy]_vars

InitPtrs ==
    /\ ParkedCore /\ ParkPolicy /\ ParkQuant
    /\ ParkPick /\ ParkParams /\ ParkSyzygy /\ InitPtr /\ ParkCorr /\ ParkStats /\ ParkSide

SpecPtr == InitPtrs /\ [][NextPtr]_vars

InitCorrs ==
    /\ ParkedCore /\ ParkPolicy /\ ParkQuant
    /\ ParkPick /\ ParkParams /\ ParkSyzygy /\ ParkPtr /\ InitCorr /\ ParkStats /\ ParkSide

SpecCorr == InitCorrs /\ [][NextCorr]_vars

InitStat ==
    /\ ParkedCore /\ ParkPolicy /\ ParkQuant
    /\ ParkPick /\ ParkParams /\ ParkSyzygy /\ ParkPtr /\ ParkCorr /\ InitStats /\ ParkSide

SpecStats == InitStat /\ [][NextStats]_vars /\ FairStats

InitInflights ==
    /\ ParkedCore /\ ParkPolicy /\ ParkQuant
    /\ ParkPick /\ ParkParams /\ ParkSyzygy /\ ParkPtr /\ ParkCorr /\ ParkStats
    /\ InitInflight /\ ParkBackprop /\ ParkHistory /\ ParkPolicyTable

SpecInflight == InitInflights /\ [][NextInflight]_vars

InitBackprops ==
    /\ ParkedCore /\ ParkPolicy /\ ParkQuant
    /\ ParkPick /\ ParkParams /\ ParkSyzygy /\ ParkPtr /\ ParkCorr /\ ParkStats
    /\ ParkInflight /\ InitBackprop /\ ParkHistory /\ ParkPolicyTable

SpecBackprop == InitBackprops /\ [][NextBackprop]_vars

InitHistories ==
    /\ ParkedCore /\ ParkPolicy /\ ParkQuant
    /\ ParkPick /\ ParkParams /\ ParkSyzygy /\ ParkPtr /\ ParkCorr /\ ParkStats
    /\ ParkInflight /\ ParkBackprop /\ InitHistory /\ ParkPolicyTable

SpecHistory == InitHistories /\ [][NextHistory]_vars

InitPolicyTables ==
    /\ ParkedCore /\ ParkPolicy /\ ParkQuant
    /\ ParkPick /\ ParkParams /\ ParkSyzygy /\ ParkPtr /\ ParkCorr /\ ParkStats
    /\ ParkInflight /\ ParkBackprop /\ ParkHistory /\ InitPolicyTable

SpecPolicyTable == InitPolicyTables /\ [][NextPolicyTable]_vars

-----------------------------------------------------------------------------
(* Properties of Spec *)

Frames == {<<w, i>> \in Workers \X (1..(MaxIters + Horizon)) : i <= Depth(w)}

Moved(w) == stack'[w] # stack[w]

ThreadsBalanced ==
    \A p \in DOMAIN nodes :
        nodes[p].threads =
            Cardinality({f \in Frames :
                /\ stack[f[1]][f[2]].child = p
                /\ stack[f[1]][f[2]].pc \in {"chk", "lock89", "call", "ret"}})

\* An iteration that had descended came back with None, and none is in flight.
AbortedDescent ==
    /\ Idle
    /\ \E w \in Workers : res[w] = NONE /\ Len(pos[w]) >= 1
    /\ \A p \in DOMAIN nodes : nodes[p].threads = 0

Abs(x) == IF x < 0 THEN 0 - x ELSE x

\* C3: backprop flip. What one iteration adds to sum_q of a node and what
\* it adds to sum_q of the child it descended to are, together, within one
\* unit of QUANT.
BackpropFlip ==
    \A w \in Workers : \A i \in 1..(Len(trail[w]) - 1) :
        Abs(trail[w][i] + trail[w][i + 1] - QUANT) <= 1

\* An iteration has stored at a leaf and at its parent, the two values
\* rounded down to one unit less than QUANT together.
FlippedPair ==
    \E w \in Workers :
        Len(trail[w]) >= 2 /\ trail[w][1] + trail[w][2] = QUANT - 1

StateMonotone ==
    [][half' = half =>
        \A p \in DOMAIN nodes \cap DOMAIN nodes' :
            /\ nodes[p].state # Ongoing => nodes'[p].state # Ongoing
            /\ IsWon(nodes[p].state) => ~IsLost(nodes'[p].state)]_vars

RECURSIVE Preserved(_, _, _, _, _)
\* The node at q of memory m2 and all it reaches (to depth d) carry what the
\* node at p of memory m1 and its descendants carry.
Preserved(m1, p, m2, q, d) ==
    /\ m2[q].mov = m1[p].mov
    /\ m2[q].policy = m1[p].policy
    /\ m2[q].state = m1[p].state
    /\ m2[q].visits = m1[p].visits
    /\ m2[q].sum_q = m1[p].sum_q
    /\ m2[q].sum_sq_q = m1[p].sum_sq_q
    /\ (d > 0 /\ m2[q].nact > 0) =>
          /\ m1[p].nact = m2[q].nact
          /\ \A i \in 0..(m2[q].nact - 1) :
                Preserved(m1, PtrAdd(m1[p].actions, i),
                          m2, PtrAdd(m2[q].actions, i), d - 1)

\* C8: half-swap correctness. Every node reachable from the new root after
\* a swap has the mov, policy, state, visits, sum_q and sum_sq_q that the
\* node at the same place under the old root had before it.
SwapPreserves ==
    [][half' # half => Preserved(nodes, root, nodes', root', MaxIters + Horizon)]_vars

\* A swap has relocated a root that has children and visits.
SwappedTree ==
    /\ swaps >= 1
    /\ Idle
    /\ nodes[root].nact > 0
    /\ PtrHalf(nodes[root].actions) = half
    /\ nodes[root].visits > 1
    /\ nodes[root].sum_sq_q # <<0, 0>>

\* C9: no writes to the inactive half. Every node whose visits, sums, state
\* or threads counter an iteration changes lies in the active half.
NoInactiveWrites ==
    [][half' = half =>
        \A p \in DOMAIN nodes \cap DOMAIN nodes' :
            (\/ nodes'[p].visits # nodes[p].visits
             \/ nodes'[p].sum_q # nodes[p].sum_q
             \/ nodes'[p].state # nodes[p].state
             \/ nodes'[p].threads # nodes[p].threads)
                => PtrHalf(p) = half]_vars

\* After a swap a worker has descended into a child whose block was fetched
\* into the active half, the block it was copied from still in the other.
FetchedDescent ==
    \E w \in Workers :
        /\ swaps >= 1
        /\ Depth(w) >= 2
        /\ PtrHalf(stack[w][2].ptr) = half
        /\ \E p \in DOMAIN nodes : PtrHalf(p) # half /\ nodes[p].mov # 0


-----------------------------------------------------------------------------
(* Properties of SpecTT and SpecTTSeq *)

\* |a - b| <= one f32 ulp below 1.0, in units of 1 / Q_SCALE
Near(a, b) ==
    LET d == LimbSub(a, b)
    IN  \/ d[1] = 0 /\ d[2] <= 2 ^ 8
        \/ d[1] = 0 - 1 /\ LIMB - d[2] <= 2 ^ 8

\* C6: a get(h) that returns an entry returns a data word that was
\* written for h, and for no other hash.
KeyQPaired ==
    \A p \in TTProcs :
        tp[p].out.tag = "Some" => tp[p].out.src = {tp[p].h}

\* No other hash collides with the slots of h: entries are replaced but
\* never removed, so a colliding hash pushed earlier has left a key or a
\* data word in one of the two slots.
NoCollision(h) ==
    \A i \in {Idx0(h), Idx1(h)} :
        tt[i].key \in {0, h} /\ tt[i].data.src \subseteq {h}

\* p has completed a get(h) that was its next operation after its push(h, Q),
\* and no other hash collides with the slots of h
GotAfterPush(p) ==
    /\ tp[p].pc = "idle"
    /\ tp[p].out.tag # "none"
    /\ tp[p].after.path # "none"
    /\ tp[p].after.h = tp[p].h
    /\ NoCollision(tp[p].h)

-----------------------------------------------------------------------------
(* Properties of SpecLock *)

Guards == {p \in LockProcs :
              lp[p].pc \in {"w_flag", "w_store", "w_drop", "w_unlock"}}

\* C10: at most one WriteGuard exists at a time, and a read() that
\* completes during a write section returns the value stored before the
\* section or the value the section finally stored.
GuardExclusive ==
    /\ Cardinality(Guards) <= 1
    /\ lk.write_locked => lk.mutex
    /\ ~lhist.open => lhist.reads \subseteq {lhist.pre, lhist.final}

ReadDuringSection ==
    /\ ~lhist.open
    /\ lhist.final # lhist.pre
    /\ lhist.reads = {lhist.pre, lhist.final}

-----------------------------------------------------------------------------
\* C11: in every state of the node, num_actions > 0 exactly if actions is
\* not NULL, the states between the stores of an expansion and of
\* clear_actions included.
ChildrenIffActions == (nd.nact > 0) <=> (nd.actions # NULL)

\* The callers that returned from the method `what`
Returned(what) == {p \in NodeProcs : np[p].pc = "idle" /\ np[p].last = what}

\* C12: while updates with q in [0,1] interleave, sum_q <= QUANT * visits in
\* every state, and every q() read is a value in [0,1].
MeanValid ==
    /\ ~Clearing => nd.sum_q <= QUANT * nd.visits
    /\ \A p \in Returned("q") : np[p].ret >= 0 /\ np[p].ret <= QUANT

\* C13: the value update returns is a mean of inputs in [0,1], hence in
\* [0,1] itself, however the updates of the node interleave.
UpdateReturnsMean ==
    \A p \in Returned("update") : np[p].ret >= 0 /\ np[p].ret <= QUANT

AbortUntouched ==
    \A w \in Workers :
        /\ \A i \in DOMAIN stack[w] :
              stack[w][i].pc \in {"prop", "propL", "propW", "update"}
                  => stack[w][i].u # NONE
        /\ (At(w, "ret") /\ Top(w).u = NONE) => trail[w] = <<>>
        /\ (stack[w] = <<>> /\ res[w] = NONE) => trail[w] = <<>>

\* An iteration that failed to allocate below a visited root has returned
\* None
AbortedIteration ==
    \E w \in Workers :
        /\ stack[w] = <<>> /\ res[w] = NONE
        /\ Len(pos[w]) >= 1
        /\ nodes[root].visits > 0

\* C17: `used' of a half never decreases between two clear(), under any
\* interleaving of reserve_nodes_thread calls, those that fail included.
UsedMonotone ==
    [][th'.used >= th.used \/ \E t \in HalfThreads : hq[t].pc = "hcused"]_vars

\* A reservation has failed next to one that succeeded, and `used' is past
\* the end of the half
FailedReservation ==
    /\ th.used > HalfLen
    /\ \E t \in HalfThreads : hq[t].pc = "idle" /\ hq[t].failed
    /\ \E t \in HalfThreads : th.end[t] > 0

\* The frames of perform_one that are in expand_node
Expanding == {"xlock", "xbody", "xfin"}

\* The places of a frame that evaluates its node as a leaf (lines 27-45)
LeafPcs == {"leaf", "setstate", "probe", "util", "update"}

\* No frame is in expand_node on a node that is not Ongoing, and no frame
\* selects an action on a node without children
NeverExpandedNorEmpty ==
    \A w \in Workers : \A i \in DOMAIN stack[w] :
        LET f == stack[w][i]
        IN  /\ f.pc \in Expanding => nodes[f.ptr].state = Ongoing
            /\ f.pc = "select" =>
                  nodes[f.ptr].nact > 0 /\ nodes[f.ptr].actions # NULL

\* The step of worker w from the place `label' on a node that is not
\* Ongoing goes on to evaluate the node as a leaf
LeafFrom(w, label) ==
    (At(w, label) /\ nodes[Top(w).ptr].state # Ongoing /\ stack'[w] # stack[w])
        => (Depth(w)' = Depth(w) /\ Top(w)'.pc \in LeafPcs)

\* C20: perform_one never calls expand_node on a node that is not Ongoing
\* and evaluates the node it finds not Ongoing as a leaf, whatever another
\* worker does to the state of the node between the terminal check and the
\* expansion check; and it never selects an action on a node without
\* children.
TerminalIsLeaf ==
    /\ []NeverExpandedNorEmpty
    /\ [][\A w \in Workers : LeafFrom(w, "enter")]_vars

\* C18: after the priors of the children of a node are written with
\* set_policy from a distribution that sums to 1, the sum of policy() over
\* the children lies in [0.999, 1.001], for 1 to 255 children.
PolicyNormalised ==
    pw.done =>
        /\ 1000 * SumSeq(pw.stored) >= 999 * U16MAX
        /\ 1000 * SumSeq(pw.stored) <= 1001 * U16MAX

\* C19: update(Q) on a freshly cleared node, then q(): the value read
\* differs from Q by at most 1/65536.
RoundTrip == qr.done => Abs(qr.Q - qr.got * SUB) <= SUB

\* A value that is not a multiple of 1/65536 has been stored and read back
Truncated == qr.done /\ qr.got * SUB < qr.Q /\ qr.node.visits = 1

AllJoined == \A w \in Workers : sw[w].pc = "joined"

PickIsArgmax ==
    pk.done =>
        LET keys == Keys(pk.kids, pk.parent_q, pk.expl)
            a    == pk.action + 1
        IN  /\ a \in DOMAIN keys
            /\ \A j \in DOMAIN keys : keys[j] <= keys[a]
            /\ \A j \in 1..(a - 1) : keys[j] < keys[a]

\* Two children tie for the maximum, one of them under virtual loss, and
\* the first of them was chosen over a child of lower score before it
TiedChoice ==
    /\ pk.done
    /\ pk.action = 1
    /\ LET keys == Keys(pk.kids, pk.parent_q, pk.expl)
       IN  /\ Len(keys) = 3
           /\ keys[3] = keys[2]
           /\ keys[1] < keys[2]
           /\ pk.kids[2].threads > 0
           /\ pk.kids[2].visits > 0
           /\ pk.kids[3].visits = 0


\* Every parameter lies within its declared range
InRange ==
    \A n \in DOMAIN mp.val :
        mp.val[n].min <= mp.val[n].val /\ mp.val[n].val <= mp.val[n].max

\* C22 as stated: set(name, v) stores clamp(v / 1000, min, max) for every
\* parameter, and every parameter stays within its range.
SetStoresScaledClamp ==
    /\ InRange
    /\ (mp.last # <<>> /\ mp.last[1] \in ParamNames) =>
          LET p == mp.val[mp.last[1]]
              v == mp.last[2]
          IN  IF p.kind = "i32"
              THEN p.val = clamp(v \div 1000, p.min, p.max)
              ELSE p.val = clamp(v, p.min, p.max)

\* C22, amended: set(name, v) stores clamp(v / 1000, min, max) for a
\* floating-point parameter and clamp(v, min, max) for an integer parameter,
\* and every parameter stays within its range.
SetStoresClamp ==
    /\ InRange
    /\ (mp.last # <<>> /\ mp.last[1] \in ParamNames) =>
          LET p == mp.val[mp.last[1]]
          IN  p.val = clamp(mp.last[2], p.min, p.max)

\* An integer parameter has been set within its range, unscaled, after a
\* floating-point parameter was cut down to its maximum
IntegerSetUnscaled ==
    /\ mp.last = <<"knight_value", 500>>
    /\ mp.val["knight_value"].val = 500
    /\ mp.val["root_cpuct"].val = 5000

\* C23: set with a name that matches no parameter leaves every parameter
\* as it was, and set with a valid name changes that parameter only.
OthersUnchanged ==
    mp.last # <<>> =>
        \A n \in DOMAIN mp.val :
            n # mp.last[1] => mp.val[n] = mp.before[n]

\* An unknown option arrived after the configuration had been changed
UnknownAfterChange ==
    /\ mp.last # <<>>
    /\ mp.last[1] \notin ParamNames
    /\ mp.val = mp.before
    /\ mp.val # default_params


\* Positions on which a handle is tried before and after a configuration
ProbeSamples ==
    {p \in Positions : p.pieces = 7 /\ Len(p.moves) = 2 /\ p.root # 0}

\* C24: when configure_syzygy returns Err the handle is the one installed
\* before and probes answer as before; the handle is replaced only by a
\* call that returns Ok; an absent or empty path disables it.
ErrKeepsHandle ==
    tb.last # <<>> =>
        /\ ~tb.last.ok =>
              /\ tb.handle = tb.last.before
              /\ \A p \in ProbeSamples :
                    probe_root_dtz_best_move(tb.handle, p)
                      = probe_root_dtz_best_move(tb.last.before, p)
        /\ tb.handle # tb.last.before => tb.last.ok
        /\ (tb.last.ok /\ tb.last.path.comps = <<>>) =>
              tb.handle = Disabled

\* A configuration failed on its second component with a tablebase
\* installed, which is still there
FailedOverInstalled ==
    /\ tb.last # <<>>
    /\ ~tb.last.ok
    /\ tb.last.path.comps = <<"tb", "none">>
    /\ tb.handle = [some |-> TRUE, dirs |-> <<"deep", "deep/sub">>]

\* The least and the greatest of a non-empty set of integers
Least(S) == CHOOSE x \in S : \A y \in S : x <= y

Greatest(S) == CHOOSE x \in S : \A y \in S : x >= y

\* C25: probe_root_dtz_best_move returns a move that keeps the sign of the
\* root whenever a legal move does; among those, one with the smallest
\* distance to zeroing when the root is won and one with the largest
\* distance when it is lost; None without a tablebase or above 7 pieces.
DtzOptimal ==
    tb.probe # <<>> =>
        LET p    == tb.probe.p
            got  == tb.probe.got
            keep == {i \in DOMAIN p.moves :
                        Probed(p.moves[i])
                        /\ signum(p.moves[i]) = signum(p.root)}
            dist == {Abs(p.moves[i]) : i \in keep}
        IN  /\ (~tb.handle.some \/ p.pieces > 7) => got = 0
            /\ (got # 0 /\ keep # {}) =>
                  /\ got \in keep
                  /\ p.root > 0 => Abs(p.moves[got]) = Least(dist)
                  /\ p.root < 0 => Abs(p.moves[got]) = Greatest(dist)


\* C26: NodePtr::new(half, idx) reads back the same half and idx and is
\* never NULL; for a non-NULL ptr and an offset k with ptr.idx() + k a valid
\* index, ptr + k has the half of ptr and the index ptr.idx() + k.
PtrRoundTrip ==
    /\ pt.pc \in {"add", "done"} =>
          /\ PtrHalf(pt.ptr) = pt.half
          /\ PtrIdx(pt.ptr) = pt.idx
          /\ pt.ptr # NULL
    /\ (pt.pc = "done" /\ pt.ptr # NULL) =>
          /\ PtrHalf(pt.sum) = PtrHalf(pt.ptr)
          /\ PtrIdx(pt.sum) = PtrIdx(pt.ptr) + pt.k


\* C27: on the all-zero table correction(board) is 0 for every board;
\* after one update(board, diff) with |diff| >= DECAY, correction(board) is
\* non-zero and has the sign of diff; every entry stays within
\* [-MAX_CORRECTION, MAX_CORRECTION].
CorrectionTakesEffect ==
    /\ ch.log = <<>> => \A b \in Boards : correction(ch.table, b) = 0
    /\ Len(ch.log) = 1 =>
          LET board == ch.log[1][1]
              diff  == ch.log[1][2]
          IN  (diff >= DECAY \/ diff <= 0 - DECAY) =>
                  signum(correction(ch.table, board)) = signum(diff)
    /\ \A f \in DOMAIN ch.table :
          /\ ch.table[f] >= 0 - MAX_CORRECTION
          /\ ch.table[f] <= MAX_CORRECTION

\* The update of the test: 100 on a board of two features, from zero
TestUpdate ==
    /\ ch.log = << <<(<<1, 2>>), 100>> >>
    /\ correction(ch.table, <<1, 2>>) = 6


\* The claims made on a threshold
ClaimsOf(name) == {i \in DOMAIN ts.claims : ts.claims[i].name = name}

\* Every true return found iters at or above the value it claimed; a
\* threshold has advanced by one step per true return and by nothing else;
\* no value of a threshold was claimed twice
ThresholdsSound ==
    /\ \A i \in DOMAIN ts.claims : ts.claims[i].iters >= ts.claims[i].value
    /\ \A name \in Thresholds :
          ts.next[name] = ThresholdStep[name]
                            * (1 + Cardinality(ClaimsOf(name)))
    /\ \A i, j \in DOMAIN ts.claims :
          (/\ i # j
           /\ ts.claims[i].name = ts.claims[j].name) =>
              ts.claims[i].value # ts.claims[j].value

\* C29: should_check returns true only with iters at or above the
\* threshold, which it then advances by one step; a false return leaves
\* the threshold alone; each threshold value is claimed by one caller;
\* the compare-and-swap loop of every caller ends.
ThresholdsAmortised ==
    /\ []ThresholdsSound
    /\ \A c \in StatCallers : (tc[c].pc # "idle") ~> (tc[c].pc = "idle")

\* A caller lost the exchange to another, looked again and was refused,
\* and the other caller claimed the value
LostTheRace ==
    \E c \in StatCallers :
        /\ tc[c].pc = "idle" /\ tc[c].calls > 0 /\ ~tc[c].ret
        /\ tc[c].iters >= ThresholdStep[tc[c].name]
        /\ tc[c].current > tc[c].iters
        /\ \E i \in DOMAIN ts.claims :
              /\ ts.claims[i].by # c
              /\ ts.claims[i].name = tc[c].name
              /\ ts.claims[i].value = ThresholdStep[tc[c].name]


-----------------------------------------------------------------------------
(* perform_one, lines 27-45 and 84-99 *)

\* The workers whose frame on node n, entered from a parent, is inside the
\* visits() == 0 branch of line 32
FirstVisitors(n) ==
    {w \in Workers : \E i \in 2..Depth(w) :
        stack[w][i].ptr = n /\ stack[w][i].fv}

\* C28: a worker inside the first-visit branch of a non-root child holds
\* the write lock of the parent's actions, at most one worker at a time is
\* inside that branch of a child, and set_state runs at most once on a node
\* between two set_new, and has run once the child has a visit of its own.
FirstVisitExclusive ==
    /\ \A w \in Workers : \A i \in 2..Depth(w) :
          stack[w][i].fv =>
             /\ stack[w][i - 1].lock
             /\ nodes[stack[w][i - 1].ptr].mtx
             /\ nodes[stack[w][i - 1].ptr].wl
    /\ \A n \in DOMAIN nodes :
          /\ Cardinality(FirstVisitors(n)) <= 1
          /\ nodes[n].fvs <= 1
          /\ nodes[n].fvs = 1 =>
                nodes[n].visits > 0 \/ FirstVisitors(n) # {}

\* Two workers found the same child unvisited: one is inside its first
\* visit, the other waits for the parent's lock
SecondVisitorWaits ==
    \E v, w \in Workers :
       /\ v # w
       /\ Depth(v) = 2 /\ stack[v][2].fv /\ stack[v][2].pc = "update"
       /\ At(w, "lock89")
       /\ Top(w).child = stack[v][2].ptr

\* get_utility (lines 122-125) of a terminal state
TerminalUtilityOf(s) ==
    IF s = Draw THEN UNIT \div 2
    ELSE IF IsLost(s) THEN 0
    ELSE UNIT

\* What Return hands to the caller of worker w's top frame
ReturnedTo(w) ==
    IF Depth(w) = 1 THEN res'[w] ELSE stack'[w][Depth(w) - 1].u

\* C30: the update of a frame that found its node terminal at line 27 adds
\* the quantised flip of that state's fixed utility to sum_q (QUANT / 2
\* for Draw, QUANT for Lost, 0 for Won) and returns the flip to the caller.
TerminalUtility ==
    [][\A w \in Workers :
          (/\ At(w, "update")
           /\ Top(w).seen # Ongoing
           /\ Len(stack'[w]) < Len(stack[w])) =>
             LET p == Top(w).ptr
                 fixed == TerminalUtilityOf(Top(w).seen)
             IN  /\ nodes'[p].sum_q = nodes[p].sum_q + Quantise(UNIT - fixed)
                 /\ ReturnedTo(w) = UNIT - fixed]_vars

-----------------------------------------------------------------------------
(* HashTable::push, the replacement (lines 186-211), with one caller *)

\* The caller is about to store the key of a push that found both slots of
\* its pair occupied by other keys: the new data is in slot 1 already, and
\* the key slot 1 had is still there
Replacing(p) ==
    /\ tp[p].pc = "ow_key"
    /\ tp[p].e = Idx1(tp[p].h)
    /\ tt[Idx1(tp[p].h)].key # 0

\* The slots that hold an entry of key k
SlotsOf(table, k) == {i \in DOMAIN table : table[i].key = k}

\* C31: a push that found both slots of its pair occupied by other keys
\* leaves in slot 0 the previous entry with more visits (slot 0's on equal
\* counts), key and data, and in slot 1 its own key with visits = 1; the
\* key of the other previous entry is in no slot afterwards.
ReplacementKeepsBetter ==
    [][\A p \in TTProcs :
          (Replacing(p) /\ tp'[p].pc = "idle") =>
             LET h == tp[p].h
                 d0 == tp[p].d0
                 d1 == tp[p].d1
                 kept == IF d1.visits > d0.visits THEN d1 ELSE d0
                 lost == IF d1.visits > d0.visits THEN d0 ELSE d1
             IN  /\ tt'[Idx0(h)].data = kept
                 /\ kept.src = {tt'[Idx0(h)].key}
                 /\ tt'[Idx1(h)].key = h
                 /\ tt'[Idx1(h)].data.visits = 1
                 /\ tt'[Idx1(h)].data.src = {h}
                 /\ \A k \in lost.src : SlotsOf(tt', k) = {}
                 /\ SlotsOf(tt', h) = {Idx1(h)}]_<<tt, tp>>

\* Slot 1 held more visits than slot 0 and has been promoted: its key is in
\* both slots until the new key is stored
PromotedEntry ==
    \E p \in TTProcs :
       /\ Replacing(p)
       /\ tp[p].d1.visits > tp[p].d0.visits
       /\ tt[Idx0(tp[p].h)].key = tt[Idx1(tp[p].h)].key

-----------------------------------------------------------------------------
(* The actions locks under perform_one *)

\* Worker w is inside CustomLock::write on the node of its top frame, and
\* the mutex is taken
WaitsWrite(w) ==
    /\ Depth(w) > 0
    /\ Top(w).pc \in {"xlock", "flock", "lock89"}
    /\ ~CanWrite(nodes[Top(w).ptr])

\* Worker w spins in CustomLock::read on the node of its top frame
WaitsRead(w) ==
    /\ Depth(w) > 0
    /\ Top(w).pc \in {"fetch", "select", "propW"}
    /\ ~CanRead(nodes[Top(w).ptr])

Blocked(w) == WaitsWrite(w) \/ WaitsRead(w)

\* The frames of w that hold a write guard: line 89 across the recursive
\* call, and expand_node and fetch_children inside their sections
HoldingFrames(w) ==
    {i \in 1..Depth(w) :
        \/ stack[w][i].pc = "call" /\ stack[w][i].lock
        \/ stack[w][i].pc \in {"xbody", "xfin", "fbody"}}

Holders(n) == {w \in Workers : \E i \in HoldingFrames(w) : stack[w][i].ptr = n}

\* The children of node n, by its actions pointer
ChildrenOf(n) ==
    IF nodes[n].actions = NULL THEN {}
    ELSE {PtrAdd(nodes[n].actions, i) : i \in 0..(nodes[n].nact - 1)}

RECURSIVE WaitChain(_, _)
\* The workers that w waits for, directly or through others, in at most k
\* steps
WaitChain(w, k) ==
    IF k = 0 \/ ~Blocked(w) THEN {}
    ELSE LET direct == Holders(Top(w).ptr)
         IN  direct \cup UNION {WaitChain(v, k - 1) : v \in direct}

\* No worker waits, directly or through others, for a lock it holds itself
\* or for a worker that waits for it; a waiting worker that holds a lock
\* holds it on an ancestor of the node it waits on, each frame below the
\* holding one being on a child of the frame above
LockOrder ==
    \A w \in Workers :
       /\ w \notin WaitChain(w, NWorkers)
       /\ Blocked(w) =>
             \A i \in HoldingFrames(w) :
                /\ i < Depth(w)
                /\ \A j \in i..(Depth(w) - 1) :
                      /\ stack[w][j + 1].ptr \in ChildrenOf(stack[w][j].ptr)
                      /\ stack[w][j + 1].ptr # stack[w][i].ptr

\* C32: the waits between workers have no cycle, a worker that holds a
\* write guard waits only on strict descendants of the guarded node, and
\* every worker waiting in write() or read() gets on.
NoLockDeadlock ==
    /\ []LockOrder
    /\ \A w \in Workers : Blocked(w) ~> ~Blocked(w)

\* A worker that holds the lock of a parent across its descent waits for
\* the lock of the child, which another worker holds
WaitsBelowHeldLock ==
    \E v, w \in Workers :
       /\ v # w
       /\ Blocked(w)
       /\ HoldingFrames(w) # {}
       /\ v \in Holders(Top(w).ptr)

-----------------------------------------------------------------------------
(* TreeHalf::reserve_nodes_thread, the ranges it hands out *)

\* C33: between two clears, the index ranges [idx, idx + num) returned by
\* successful calls of reserve_nodes_thread with distinct thread ids are
\* pairwise disjoint and lie within nodes.len() of the half.
RangesDisjoint ==
    \A i \in DOMAIN th.grants :
       LET a == th.grants[i]
       IN  /\ a[2] >= 0
           /\ a[2] + a[3] <= HalfLen
           /\ \A j \in DOMAIN th.grants :
                 i # j => LET b == th.grants[j]
                          IN  a[2] + a[3] <= b[2] \/ b[2] + b[3] <= a[2]

\* Two threads hold ranges of blocks claimed one after the other, and one
\* of them has been served from the remainder of its block again
InterleavedBlocks ==
    \E i, j, k \in DOMAIN th.grants :
       /\ i < j /\ j < k
       /\ th.grants[i][1] = th.grants[k][1]
       /\ th.grants[j][1] # th.grants[i][1]
       /\ th.grants[k][2] = th.grants[i][2] + th.grants[i][3]

\* The step returns a range to thread t
Granted(t) ==
    /\ Len(th'.grants) = Len(th.grants) + 1
    /\ th'.grants[Len(th'.grants)][1] = t

\* Thread t is in, or may start, a call that began after a call had
\* returned None
LateCall(t) == th.failed /\ (hq[t].pc = "idle" \/ hq[t].late)

\* C34 as stated: once a call has returned None, no call that begins later
\* is given a range until clear(), and is_full() is true all that time.
FailureSticky ==
    /\ [](th.failed => is_full(th))
    /\ [][\A t \in HalfThreads : LateCall(t) => ~Granted(t)]_vars

\* C34, amended: once a call has returned None, a call that begins later
\* is given a range only out of the remainder of its thread's own block,
\* and is_full() is true until clear().
FailureStickyForBlocks ==
    /\ [](th.failed => is_full(th))
    /\ [][\A t \in HalfThreads :
            (LateCall(t) /\ Granted(t)) =>
               LET g == th'.grants[Len(th'.grants)]
               IN  /\ hq[t].pc = "idle"
                   /\ g[2] = th.next[t]
                   /\ g[2] + g[3] <= th.end[t]
                   /\ th'.used = th.used]_vars

\* After a call has returned None, a thread has been served from the
\* remainder of its block
ServedAfterFailure ==
    /\ th.failed
    /\ \E t \in HalfThreads :
          /\ hq[t].pc = "idle" /\ hq[t].ret # NULL
          /\ th.grants # <<>>
          /\ th.grants[Len(th.grants)][1] = t
          /\ th.grants[Len(th.grants)][2] + th.grants[Len(th.grants)][3]
                < th.end[t]
          /\ th.used > HalfLen
          /\ \E o \in HalfThreads : o # t /\ hq[o].failed


-----------------------------------------------------------------------------
(* C35 *)

RECURSIVE VisitsOf(_)
\* The visits of the nodes of S, added up
VisitsOf(S) ==
    IF S = {} THEN 0
    ELSE LET c == CHOOSE x \in S : TRUE
         IN  nodes[c].visits + VisitsOf(S \ {c})

\* A node's visits against its own first visit and its children's visits
Conserved(n) ==
    /\ nodes[n].visits >= 1 + VisitsOf(ChildrenOf(n))
    /\ (n # root /\ ~is_terminal(nodes[n]))
          => nodes[n].visits = 1 + VisitsOf(ChildrenOf(n))

\* Below the root a terminal state is never taken back (no swap, no clear):
\* the nodes there that are not terminal now are those that never were
TerminalStays ==
    swaps' = 0 =>
        \A n \in DOMAIN nodes \ {root} :
            is_terminal(nodes[n]) => is_terminal(nodes'[n])

\* C35: with no iteration in flight and no half-swap so far, every visited
\* node has at least one visit more than its children together, and exactly
\* one more when it is not the root and never was terminal; this holds
\* after aborted iterations too
VisitConservation ==
    /\ [](Idle /\ swaps = 0 =>
            \A n \in DOMAIN nodes : nodes[n].visits > 0 => Conserved(n))
    /\ [][TerminalStays]_vars

\* An iteration was aborted (the swap it asks for has not happened), and a
\* node below the root has been visited through its children
ConservedAfterAbort ==
    /\ Idle /\ swaps = 0 /\ needSwap
    /\ \E n \in DOMAIN nodes :
          /\ n # root
          /\ ~is_terminal(nodes[n])
          /\ nodes[n].visits >= 2
          /\ VisitsOf(ChildrenOf(n)) >= 1


-----------------------------------------------------------------------------
(* C36 *)

\* The get that just returned found an entry
GotSome(p) == tp[p].pc = "idle" /\ tp[p].out.tag = "Some"

\* C36: no false hits. get(h) of a hash that has not been pushed since new()
\* or the last clear() returns None, for every hash, 0 included.
NoFalseHits ==
    \A p \in TTProcs : GotSome(p) => tp[p].h \in tp[p].pushed

\* The same for every hash but 0
NoFalseHitsNonZero ==
    \A p \in TTProcs : GotSome(p) /\ tp[p].h # 0 => tp[p].h \in tp[p].pushed

\* A get of a hash that was pushed and then displaced or cleared away
\* returned None
MissAfterLoss ==
    \E p \in TTProcs :
        /\ tp[p].pc = "idle" /\ tp[p].out.tag = "None"
        /\ tp[p].h # 0
        /\ \/ tp[p].clears > 0
           \/ tp[p].h \in tp[p].pushed


-----------------------------------------------------------------------------
(* C37 *)

RECURSIVE HeldIn(_, _, _)
\* The hashes of H held on slot i by the callers of T, counted
HeldIn(T, i, H) ==
    IF T = {} THEN 0
    ELSE LET t == CHOOSE x \in T : TRUE
         IN  Len(SelectSeq(fl.held[t], LAMBDA h : idx(h) = i /\ h \in H))
             + HeldIn(T \ {t}, i, H)

\* At most one hash of H is held on each slot
Exclusive(H) == \A i \in 0..(FlSize - 1) : HeldIn(FlThreads, i, H) <= 1

\* The last call was contains(h) for h in H and told whether h is stored
ContainsExact(H) ==
    (fl.last # <<>> /\ fl.last.op = "contains" /\ fl.last.h \in H)
        => (fl.last.ret <=> fl.last.stored)

\* A remove of a hash other than the stored one leaves the table alone
StrayRemove ==
    \A t \in FlThreads, h \in FlHashes :
        (fl'.last = [op |-> "remove", t |-> t, h |-> h, ret |-> FALSE,
                     stored |-> Stored(h)] /\ fl.table[idx(h)] # h)
            => fl'.table = fl.table

\* C37: in-flight exclusion. From a successful try_insert(h) to the
\* matching remove(h) no other try_insert succeeds for h or for a hash of
\* the same slot; a remove of a hash that is not the stored one leaves the
\* slot unchanged; contains(h) is true exactly while h is stored; for every
\* hash, 0 included.
InflightExclusion ==
    /\ [](Exclusive(FlHashes) /\ ContainsExact(FlHashes))
    /\ [][StrayRemove]_vars

\* The same for the hashes other than 0
InflightExclusionNonZero ==
    /\ [](Exclusive(FlHashes \ {0}) /\ ContainsExact(FlHashes \ {0}))
    /\ [][StrayRemove]_vars

\* A try_insert of another hash of an occupied slot has failed
InsertRefused ==
    /\ fl.last # <<>>
    /\ fl.last.op = "try_insert" /\ ~fl.last.ret
    /\ fl.last.h # 0
    /\ fl.table[idx(fl.last.h)] \notin {0, fl.last.h}


-----------------------------------------------------------------------------
(* C38 *)

\* The root has grown by what the record calls carried
RootHasAll ==
    /\ rb.node.visits = rb.first + rb.hist.visits
    /\ rb.node.sum_q = rb.hist.sum_q
    /\ rb.node.sum_sq_q = rb.hist.sum_sq_q

\* The accumulator of a thread that is not inside record
PendingSmall ==
    \A t \in RbThreads :
        rb.pc[t] = "idle" => rb.per_thread[t].visits < flush_threshold

ActivatedStays == rb.activated => rb'.activated

-----------------------------------------------------------------------------
(* C39 *)

\* The entry is within the bound, and so is the last correction
EntryBounded ==
    /\ vh.cell >= 0 - 1024 /\ vh.cell <= 1024
    /\ vh.last # <<>> =>
          (vh.last[2] - vh.last[1] <= 64 /\ vh.last[1] - vh.last[2] <= 64)

\* An update whose bonus is not 0 has stored once when it returns, and no
\* call stores twice
AppliedOnce ==
    \A t \in VhThreads :
        /\ vh.applied[t] <= 1
        /\ (vh.pc[t] \in {"idle", "count"} /\ vh.bonus[t] # 0)
              => vh.applied[t] = 1

\* A store is the gravity-scaled delta added to the value the exchange
\* found in the cell
AppliedToCurrent ==
    \A t \in VhThreads :
        vh'.applied[t] = vh.applied[t] + 1 =>
            vh'.cell = vh.cell + scale_bonus(vh.cell, vh.bonus[t])

\* C39: value-history entries are bounded. After any sequence and
\* interleaving of updates every entry is in [-1024, 1024], so correct_cp
\* moves cp by at most 64; an update whose bonus is not 0 applies its delta
\* exactly once, to the value current at its successful compare-exchange.
HistoryBounded ==
    /\ [](EntryBounded /\ AppliedOnce)
    /\ [][AppliedToCurrent]_vars

\* An update has lost an exchange to another thread, retried on the new
\* value, and the entry is at the bound
RetriedAtBound ==
    /\ vh.cell \in {1024, 0 - 1024}
    /\ \E t \in VhThreads :
          /\ vh.pc[t] = "count"
          /\ vh.retried[t]
          /\ vh.applied[t] = 1


-----------------------------------------------------------------------------
(* C40 *)

\* The last call was a get of the hash last pushed to its slot
GotPushed ==
    /\ pl.got # <<>>
    /\ pl.pushed[PlIdx(pl.got.hash)] # <<>>
    /\ pl.pushed[PlIdx(pl.got.hash)].hash = pl.got.hash

\* What was pushed to the slot of the last get
PushedEntry == pl.pushed[PlIdx(pl.got.hash)].entry

\* C40: policy-table round trip. After push(hash, ptr, temp), with no other
\* push to the slot, get(hash) returns Some entry with the pushed ptr and
\* temp, for every hash, NodePtr and temp; unpacking the packed word gives
\* back the same (ptr, temp, key).
PolicyRoundTrip ==
    /\ GotPushed =>
          /\ pl.got.tag = "Some"
          /\ pl.got.entry.ptr = PushedEntry.ptr
          /\ pl.got.entry.temp = PushedEntry.temp
    /\ \A i \in 0..(PlSize - 1) :
          pl.pushed[i] # <<>> => from_word(pl.table[i]) = pl.pushed[i].entry

\* The pointer and the temperature come back from the word as pushed
PtrAndTempKept ==
    \A i \in 0..(PlSize - 1) :
        pl.pushed[i] # <<>> =>
            /\ from_word(pl.table[i]).ptr = pl.pushed[i].entry.ptr
            /\ from_word(pl.table[i]).temp = pl.pushed[i].entry.temp

\* A get of a pushed hash has found its entry
PolicyHit == GotPushed /\ pl.got.tag = "Some" /\ pl.got.entry.ptr # PtrNew(0, 0)

====
